---- MODULE Spec2Model ----
(***************************************************************************)
(* The certificate orchestrator of mcp-acme: the issuance coordinator      *)
(* (orchestrator.py), the Challenge Pump thread, the LB datagroup writer   *)
(* (adapters/bigip.py), the secret store (adapters/vault.py) and the       *)
(* inventory (adapters/inventory.py).                                      *)
(*                                                                         *)
(* Spec   : one coordinator serving calls one after the other, each with   *)
(*          its ACME client process and its Pump running beside it.        *)
(* SpecDG : one or two datagroup writers whose REST reads and writes       *)
(*          interleave on one LB datagroup.                                *)
(***************************************************************************)
EXTENDS Integers, Sequences, FiniteSets, TLC

\* ------------------------------------------------------------------ bounds
\* Calls (request/renew/deploy/revoke) served in one behaviour.
MaxCalls == 2
\* Challenge files the ACME client writes in one behaviour.
MaxTokens == 2
\* Longest leaf (in words and separators) given to the path normalization.
MaxLeaf == 2
\* Calls of upsert_http01_records one writer makes with the same token map.
MaxRounds == 2
\* Most challenges handed to one publish_http01_challenges.
MaxChallenges == 2
\* Longest content and largest chunk size of an upload.
MaxTotal == 4
MaxChunk == 3
\* proc.returncode before the process has exited (Python's None).
RcNone == -1

Certs == 1..MaxCalls
Tokens == 1..MaxTokens
\* Secret store paths a caller may give (already normalized leaves).
Paths == {"tls/a", "tls/b"}
NoPath == ""
\* A key is named by the call whose ACME run generated it; 0 is "no key".
NoKey == 0
\* The key authorization the ACME client writes into the file of token t.
KeyAuth(t) == t
\* ACME directory URLs: two entries of PROVIDERS; NoUrl is an absent one.
LetsEncryptUrl == "https://acme-v02.api.letsencrypt.org/directory"
GoogleUrl == "https://dv.acme-v02.api.pki.goog/directory"
Urls == {LetsEncryptUrl, GoogleUrl}
NoUrl == ""

\* ------------------------------------------------------- ACME run outputs
\* What the coordinator looks for in the captured stdout/stderr of a run:
\* succ: a needle of _acme_likely_succeeded in stdout; skip: a reused-skip
\* marker in stdout; rl / eab / nm: the rate-limit, EAB and not-managed
\* markers in stderr+stdout; retry: the digits of a "retry after <date>
\* <time> UTC" phrase, << year, month, day, hour, minute, second >>, or none.
NoRetry == << >>
\* A phrase with a real date and one whose digits are no date (month 13).
GoodRetry == << 2025, 1, 2, 3, 4, 5 >>
BadRetry == << 2025, 13, 2, 3, 4, 5 >>
Retries == {NoRetry, GoodRetry, BadRetry}
NoMarkers == [succ |-> FALSE, skip |-> FALSE, rl |-> FALSE, eab |-> FALSE, nm |-> FALSE,
              retry |-> NoRetry]
Markers == [succ : BOOLEAN, skip : BOOLEAN, rl : BOOLEAN, eab : BOOLEAN, nm : BOOLEAN,
            retry : Retries]
\* The outputs the ACME client process of Spec ends with.
RunOutputs ==
    { NoMarkers,
      [NoMarkers EXCEPT !.succ = TRUE],
      [NoMarkers EXCEPT !.skip = TRUE],
      [NoMarkers EXCEPT !.rl = TRUE],
      [NoMarkers EXCEPT !.rl = TRUE, !.retry = GoodRetry],
      [NoMarkers EXCEPT !.rl = TRUE, !.retry = BadRetry],
      [NoMarkers EXCEPT !.eab = TRUE],
      [NoMarkers EXCEPT !.eab = TRUE, !.skip = TRUE],
      [NoMarkers EXCEPT !.eab = TRUE, !.rl = TRUE],
      [NoMarkers EXCEPT !.nm = TRUE] }

\* The exit codes of the ACME client process.
ExitCodes == {0, 1}

acme_likely_succeeded(out) == out.succ

IsRateLimited(txt) == txt.rl
IsEabRequired(txt) == txt.eab
IsReusedSkip(out) == out.skip

\* Variant: a reused-skip outcome of any attempt is followed by a rerun.
ForceIssueEverywhere(attempt) == TRUE
\* The force-issue rerun exists only in the branch of the first attempt.
ForceIssuePermitted(attempt) == attempt = 1

\* Variant: the reused-skip markers are looked for before the known errors.
ClassifyNoFilesSkipFirst(attempt, rc, out) ==
    IF rc = 0 /\ acme_likely_succeeded(out) THEN "install"
    ELSE IF ForceIssuePermitted(attempt) /\ IsReusedSkip(out) THEN "force"
    ELSE IF IsRateLimited(out) THEN "rate_limited"
    ELSE IF IsEabRequired(out) THEN "eab_required"
    ELSE "no_challenge_files"
\* request_certificate, no challenge file seen: what the call does next.
ClassifyNoFiles(attempt, rc, out) ==
    IF rc = 0 /\ acme_likely_succeeded(out) THEN "install"
    ELSE IF IsRateLimited(out) THEN "rate_limited"
    ELSE IF IsEabRequired(out) THEN "eab_required"
    ELSE IF ForceIssuePermitted(attempt) /\ IsReusedSkip(out) THEN "force"
    ELSE "no_challenge_files"

\* request_certificate after _finish.
ClassifyFinish(rc, out) ==
    IF rc = 0 THEN "install"
    ELSE IF IsRateLimited(out) THEN "rate_limited"
    ELSE IF IsEabRequired(out) THEN "eab_required"
    ELSE "acme_failed"

\* renew_certificate after the wait for files or exit.
ClassifyRenewWait(had, rc, out) ==
    IF IsEabRequired(out) THEN "eab_required"
    ELSE IF had THEN "preflight"
    ELSE IF rc = 0 /\ acme_likely_succeeded(out) THEN "finish"
    ELSE IF IsRateLimited(out) THEN "rate_limited"
    ELSE "no_challenge_files"

\* renew_certificate after _finish.
ClassifyRenewFinish(rc, out) ==
    IF rc = 0 THEN "install"
    ELSE IF IsRateLimited(out) THEN "rate_limited"
    ELSE IF IsEabRequired(out) THEN "eab_required"
    ELSE IF out.nm THEN "not_managed"
    ELSE "acme_failed"

\* None of _extract_retry_after_iso, and the ISO text of a timestamp.
NoIso == [date |-> << >>, time |-> << >>, zone |-> ""]

\* datetime.strptime(ts, "%Y-%m-%d %H:%M:%S") accepts the digits.
DaysIn(y, m) ==
    IF m \in {4, 6, 9, 11} THEN 30
    ELSE IF m # 2 THEN 31
    ELSE IF (y % 4 = 0 /\ y % 100 # 0) \/ y % 400 = 0 THEN 29 ELSE 28
StrptimeOk(ts) ==
    /\ ts[1] \in 1..9999 /\ ts[2] \in 1..12
    /\ ts[3] \in 1..DaysIn(ts[1], ts[2])
    /\ ts[4] \in 0..23 /\ ts[5] \in 0..59 /\ ts[6] \in 0..59

\* Variant: the matched digits are formatted without being parsed.
extract_retry_after_iso_unparsed(txt) ==
    IF txt.retry = NoRetry THEN NoIso
    ELSE [date |-> SubSeq(txt.retry, 1, 3), time |-> SubSeq(txt.retry, 4, 6), zone |-> "Z"]
\* _extract_retry_after_iso: no phrase or no date gives None, else
\* "%Y-%m-%dT%H:%M:%SZ" of the parsed timestamp.
extract_retry_after_iso(txt) ==
    IF txt.retry = NoRetry THEN NoIso
    ELSE IF ~StrptimeOk(txt.retry) THEN NoIso
    ELSE [date |-> << txt.retry[1], txt.retry[2], txt.retry[3] >>,
          time |-> << txt.retry[4], txt.retry[5], txt.retry[6] >>,
          zone |-> "Z"]

\* ------------------------------------------------------------- ACME argv
\* EAB credentials read from the secret store, or none asked for.
NoEab == [kid |-> "", hmk |-> ""]
SomeEab == [kid |-> "kid-1", hmk |-> "hmac-1"]
\* An EAB secret whose entry has no hmac_key.
BadEab == [kid |-> "kid-1", hmk |-> ""]
\* if eab_secret: ... if not (kid and hmk): raise ValueError
EabRejected(eab) == eab # NoEab /\ (eab.kid = "" \/ eab.hmk = "")

\* Orchestrator._acme: the program, --home, the arguments, and --debug 2 when
\* ACME_DEBUG is set.
acme(args, debug) ==
    << "/usr/local/bin/acme.sh", "--home", "/opt/acme" >> \o args
        \o (IF debug THEN << "--debug", "2" >> ELSE << >>)

RECURSIVE DomainArgs(_)
\* for d in domains: cmd += ["-d", d, "-w", webroot]
DomainArgs(domains) ==
    IF domains = << >> THEN << >>
    ELSE << "-d", Head(domains), "-w", "webroot" >> \o DomainArgs(Tail(domains))

RECURSIVE EmailArgs(_)
\* for email in contact: cmd += ["--accountemail", email]
EmailArgs(emails) ==
    IF emails = << >> THEN << >>
    ELSE << "--accountemail", Head(emails) >> \o EmailArgs(Tail(emails))

EabArgs(eab) ==
    IF eab = NoEab THEN << >> ELSE << "--eab-kid", eab.kid, "--eab-hmac-key", eab.hmk >>

base_issue(url, keylen) == << "--issue", "--server", url, "--keylength", keylen >>

\* cmd_issue of request_certificate.
IssueArgv(url, keylen, domains, emails, eab, debug) ==
    acme(base_issue(url, keylen), debug)
        \o DomainArgs(domains) \o EmailArgs(emails) \o EabArgs(eab)

\* Variant: the rerun leaves the EAB arguments out.
ForceArgvWithoutEab(url, keylen, domains, emails, eab, debug) ==
    acme(base_issue(url, keylen) \o << "--force" >>, debug)
        \o DomainArgs(domains) \o EmailArgs(emails)
\* force_issue of request_certificate.
ForceArgv(url, keylen, domains, emails, eab, debug) ==
    acme(base_issue(url, keylen) \o << "--force" >>, debug)
        \o DomainArgs(domains) \o EmailArgs(emails) \o EabArgs(eab)

\* cmd of renew_certificate: --issue on a migration, else --renew --force
\* for the main domain (the first of san).
RenewArgv(url, migrate, san, emails, eab, debug) ==
    (IF migrate
     THEN acme(<< "--issue", "--server", url, "--keylength", "ec-256" >> \o EabArgs(eab), debug)
              \o DomainArgs(san)
     ELSE acme((IF url # NoUrl THEN << "--server", url >> ELSE << >>)
                  \o << "--renew", "-d", Head(san), "--force", "-w", "webroot" >>
                  \o EabArgs(eab), debug))
        \o EmailArgs(emails)

\* The requests of Spec: the n-th certificate is asked for with the n-th of
\* these (in turn), and ACME_DEBUG is set.
SampleRequests ==
    << [domains |-> << "a.example.com" >>, emails |-> << >>,
        eab |-> NoEab, keylen |-> "ec-256"],
       [domains |-> << "b.example.com", "www.b.example.com" >>,
        emails |-> << "ops@example.com" >>, eab |-> SomeEab, keylen |-> "2048"] >>
RequestOf(c) == SampleRequests[((c + 1) % 2) + 1]
AcmeDebug == TRUE

\* ------------------------------------------------------ renewal directory
\* renew_certificate: the directory_url the run uses, from the one supplied
\* and the one stored (prev_dir); without either, the default provider's.
RenewDirectoryUrl(supplied, prev) ==
    IF supplied # NoUrl THEN supplied
    ELSE IF prev # NoUrl THEN prev
    ELSE LetsEncryptUrl

\* Variant: a supplied directory_url always counts as a migration.
MigrateCaWheneverSupplied(url, prev) == url # NoUrl
\* migrate_ca = bool(directory_url and prev_dir and directory_url != prev_dir)
MigrateCa(url, prev) == url # NoUrl /\ prev # NoUrl /\ url # prev

\* ------------------------------------------------------------ datagroup
\* A datagroup is [exists, records]; records is the REST "records" array, a
\* sequence of rows [name, data].
NoDG == [exists |-> FALSE, records |-> << >>]

Names(records) == { records[i].name : i \in 1..Len(records) }

\* existing = {r["name"]: r.get("data", "") for r in records}: a later row of
\* the same name wins.
ExistingMap(records) ==
    [ n \in Names(records) |->
        LET last == CHOOSE i \in 1..Len(records) :
                       /\ records[i].name = n
                       /\ \A j \in 1..Len(records) : records[j].name = n => j <= i
        IN records[last].data ]

\* Variant: every upsert writes.
UpsertChangedAlways(existing, M) == TRUE
\* The loop of upsert_http01_records: changed iff some token is absent or
\* has other data.
UpsertChanged(existing, M) ==
    \E tok \in DOMAIN M : tok \notin DOMAIN existing \/ existing[tok] # M[tok]

\* Variant: the array written holds the rows of M only.
UpsertMergeDropsExisting(existing, M) == M
\* existing[tok] = ka for every token of M, the other rows as they were read.
UpsertMerge(existing, M) ==
    [ k \in (DOMAIN existing) \cup (DOMAIN M) |->
        IF k \in DOMAIN M THEN M[k] ELSE existing[k] ]

RECURSIVE SortedRecords(_)
\* [{"name": k, "data": v} for k, v in sorted(existing.items())]
SortedRecords(map) ==
    IF DOMAIN map = {} THEN << >>
    ELSE LET k == CHOOSE x \in DOMAIN map : \A y \in DOMAIN map : x <= y
             rest == [ y \in (DOMAIN map) \ {k} |-> map[y] ]
         IN << [name |-> k, data |-> map[k]] >> \o SortedRecords(rest)

\* The records array after one upsert read `records`: written only if changed.
UpsertRecords(records, M) ==
    IF UpsertChanged(ExistingMap(records), M)
    THEN SortedRecords(UpsertMerge(ExistingMap(records), M))
    ELSE records

\* ensure_string_dg + read + write, with no other writer in between.
upsert_http01_records(d, M) ==
    [exists |-> TRUE,
     records |-> UpsertRecords(IF d.exists THEN d.records ELSE << >>, M)]

\* The body the LB serves for a token: its datagroup row, if any.
Served(d, t) == d.exists /\ t \in Names(d.records)
ServedBody(d, t) == ExistingMap(d.records)[t]

\* ------------------------------------------------------------ certificate
\* The validity (notBefore, notAfter) of the certificate the CA issues during
\* the n-th call: from then until some later time.
CertDates(n) == << n, n + n >>

\* What `openssl x509 -noout -dates` prints for a certificate.
OpensslDates(d) == << [key |-> "notBefore", val |-> d[1]],
                      [key |-> "notAfter", val |-> d[2]] >>

RECURSIVE LastValue(_, _, _)
\* The value of the last line starting with `key`, None (0) without one.
LastValue(lines, key, dflt) ==
    IF lines = << >> THEN dflt
    ELSE LET l == lines[Len(lines)]
         IN IF l.key = key THEN l.val
            ELSE LastValue(SubSeq(lines, 1, Len(lines) - 1), key, dflt)

\* Variant: the two lines taken for each other.
parse_dates_swapped(lines) ==
    [nb |-> LastValue(lines, "notAfter", 0), na |-> LastValue(lines, "notBefore", 0)]
\* _parse_dates: nb from the notBefore= line, na from the notAfter= line.
parse_dates(lines) ==
    [nb |-> LastValue(lines, "notBefore", 0), na |-> LastValue(lines, "notAfter", 0)]

\* ------------------------------------------------------------------ state
VARIABLES
    calls,        \* calls started so far
    pc,           \* where the coordinator is in the current call
    call,         \* the current call: [kind, cert, host, ksp, attempt]
    proc,         \* the ACME client process of the call: none, running, exited
    launches,     \* issue/renew processes launched by the current call
    w,            \* had_files, rc, out of the latest wait for files or exit
    err,          \* the error the call raised ("" for none)
    raised,       \* the attributes of the raised ACME error (NoExc for none)
    toCheck,      \* collected challenges not yet preflighted: token -> expected
    pump,         \* the Challenge Pump thread: [st, cert, seen, listed]
    webroot,      \* cert -> the token files in its acme-challenge directory
    dg,           \* the LB datagroup
    vault,        \* secret store: path -> key (NoKey: no entry)
    disk,         \* cert -> [fullchain, dates, privkey] of its working directory
    inv,          \* inventory: cert -> record
    certKey,      \* cert -> the key its latest install step produced
    observed,     \* the files listed when the wait returned had_files
    preflighted,  \* tokens for which _wait_public_token returned in this call
    finishCalled, \* _finish has been called in this call
    written,      \* tokens the ACME client wrote during this call
    installedKey, \* the key install-cert put into privkey.pem in this call
    keyRemoved,   \* os.remove(privkey.pem) succeeded in this call
    wr,           \* SpecDG: the datagroup writers
    dg0,          \* SpecDG: the datagroup before the writers started
    fn,           \* SpecFn: the function applied last ("none" before any)
    arg,          \* SpecFn: its arguments
    res           \* SpecFn: its result

coordVars == << calls, pc, call, proc, launches, w, err, raised, toCheck >>
envVars == << pump, webroot, dg >>
storeVars == << vault, disk, inv, certKey >>
histVars == << observed, preflighted, finishCalled, written, installedKey, keyRemoved >>
dgVars == << wr, dg0 >>
fnVars == << fn, arg, res >>
sideVars == << dgVars, fnVars >>
vars == << coordVars, envVars, storeVars, histVars, dgVars, fnVars >>

NoCall == [kind |-> "none", cert |-> 0, host |-> FALSE, ksp |-> NoPath, attempt |-> 0,
           supplied |-> NoUrl, url |-> NoUrl, migrate |-> FALSE, argvs |-> << >>]
NoProc == "none"
\* The LB host of an earlier deployment and the one deploy_to_bigip is given.
EarlierHost == "lb-0"
DeployHost == "lb-1"
\* The attributes of AcmeRateLimitError and AcmeEabRequiredError (the latter
\* has no next_retry_iso).
NoExc == [next_retry_iso |-> NoIso, directory_url |-> NoUrl]
AcmeRateLimitError(txt, directory_url) ==
    [next_retry_iso |-> extract_retry_after_iso(txt), directory_url |-> directory_url]
AcmeEabRequiredError(directory_url) ==
    [next_retry_iso |-> NoIso, directory_url |-> directory_url]
NoWait == [had |-> FALSE, rc |-> RcNone, out |-> NoMarkers]
NoChecks == [t \in {} |-> 0]
PumpOff == [st |-> "off", cert |-> 0, seen |-> {}, listed |-> {}]
NoDisk == [fullchain |-> FALSE, dates |-> << 0, 0 >>, privkey |-> NoKey]
\* The JSONB column `deployed`: a document by key, NULL and {} alike empty.
NoDoc == [k \in {} |-> 0]
\* Variant: the right operand replaces the document.
JsonbReplace(a, b) == b
\* a || b of two JSONB objects: the keys of both, a key of b with b's value.
JsonbConcat(a, b) ==
    [ k \in (DOMAIN a) \cup (DOMAIN b) |-> IF k \in DOMAIN b THEN b[k] ELSE a[k] ]
\* json.dumps({"http01_challenges": challenges}) and json.dumps({"bigip": {...}})
ChallengesDoc(challenges) == [ k \in {"http01_challenges"} |-> challenges ]
BigipDoc(host) == [ k \in {"bigip"} |-> [host |-> host] ]
\* The challenges a record holds, none if the key is absent.
StoredChallenges(rec) ==
    IF "http01_challenges" \in DOMAIN rec.deployed THEN rec.deployed["http01_challenges"]
    ELSE NoChecks
NoRec == [status |-> "none", ksp |-> NoPath, nb |-> 0, na |-> 0, deployed |-> NoDoc,
          url |-> NoUrl]
\* Inventory.store_challenges and Inventory.mark_deployed: UPDATE certs ...
\* WHERE cert_id = %s, which changes the row of cert_id if there is one.
Inventory_store_challenges(rows, c, challenges) ==
    IF rows[c].status = "none" THEN rows
    ELSE [rows EXCEPT ![c].deployed = JsonbConcat(@, ChallengesDoc(challenges))]
Inventory_mark_deployed(rows, c, host) ==
    IF rows[c].status = "none" THEN rows
    ELSE [rows EXCEPT ![c].deployed = JsonbConcat(@, BigipDoc(host)),
                      ![c].status = "deployed"]
NoWriters == << >>

\* A fresh orchestrator: no call yet, empty stores, empty working directories.
InitOrchestrator ==
    /\ calls = 0 /\ pc = "idle" /\ call = NoCall /\ proc = NoProc
    /\ launches = 0 /\ w = NoWait /\ err = "" /\ raised = NoExc /\ toCheck = NoChecks
    /\ pump = PumpOff
    /\ webroot = [c \in Certs |-> {}]
    /\ vault = [p \in Paths |-> NoKey]
    /\ disk = [c \in Certs |-> NoDisk]
    /\ inv = [c \in Certs |-> NoRec]
    /\ certKey = [c \in Certs |-> NoKey]
    /\ observed = {} /\ preflighted = {} /\ finishCalled = FALSE /\ written = {}
    /\ installedKey = NoKey /\ keyRemoved = FALSE

\* No function of SpecFn has been applied.
NoFn == fn = "none" /\ arg = << >> /\ res = << >>

Init ==
    /\ InitOrchestrator
    /\ dg = NoDG
    /\ wr = NoWriters /\ dg0 = NoDG
    /\ NoFn

\* read().strip() of the file of token t.
FileContent(t) == KeyAuth(t)

\* The call raises: nothing else of the coordinator's state changes.
Raise(kind) == pc' = "failed" /\ err' = kind /\ raised' = NoExc

\* The call raises AcmeRateLimitError or AcmeEabRequiredError for the output
\* txt, or a RuntimeError for another kind.
RaiseKnown(kind, txt) ==
    /\ pc' = "failed" /\ err' = kind
    /\ raised' = IF kind = "rate_limited" THEN AcmeRateLimitError(txt, call.url)
                 ELSE IF kind = "eab_required" THEN AcmeEabRequiredError(call.url)
                 ELSE NoExc

\* ------------------------------------------------- the ACME client process
\* The client writes the challenge file of a new token.
AcmeWrite ==
    /\ proc = "running"
    /\ LET used == UNION { webroot[c] : c \in Certs }
           t == Cardinality(used) + 1
       IN /\ t \in Tokens
          /\ webroot' = [webroot EXCEPT ![call.cert] = @ \cup {t}]
          /\ written' = written \cup {t}
    /\ UNCHANGED << coordVars, pump, dg, storeVars, sideVars,
                    observed, preflighted, finishCalled, installedKey, keyRemoved >>

AcmeExit ==
    /\ proc = "running"
    /\ proc' = "exited"
    /\ UNCHANGED << calls, pc, call, launches, w, err, raised, toCheck,
                    envVars, storeVars, histVars, sideVars >>

\* ------------------------------------------------------ the Challenge Pump
PumpNew == webroot[pump.cert] \ pump.seen
PumpTokenMap == [ t \in PumpNew |-> FileContent(t) ]

\* One poll that finds new files: read them, upsert the batch, remember them.
PumpPublish ==
    /\ pump.st = "running"
    /\ PumpNew # {}
    /\ dg' = upsert_http01_records(dg, PumpTokenMap)
    /\ pump' = [pump EXCEPT !.seen = @ \cup PumpNew, !.listed = @ \cup PumpNew]
    /\ UNCHANGED << coordVars, webroot, storeVars, histVars, sideVars >>

\* An LB call of the upsert raises: nothing catches it in the thread.
PumpLBError ==
    /\ pump.st = "running"
    /\ PumpNew # {}
    /\ pump' = [pump EXCEPT !.st = "crashed", !.listed = @ \cup PumpNew]
    /\ UNCHANGED << coordVars, webroot, dg, storeVars, histVars, sideVars >>

\* time.time() - start reaches timeout_sec.
PumpExpire ==
    /\ pump.st = "running"
    /\ pump' = [pump EXCEPT !.st = "expired"]
    /\ UNCHANGED << coordVars, webroot, dg, storeVars, histVars, sideVars >>

\* --------------------------------------------------------- the coordinator
StartProc == "running"
StartPump(c) == [st |-> "running", cert |-> c, seen |-> {}, listed |-> {}]
\* Variant: the watcher thread is started for every call.
WatcherAlways(host, c) == StartPump(c)
\* if bigip_host: watcher = threading.Thread(...); watcher.start()
Watcher(host, c) == IF host THEN StartPump(c) ELSE PumpOff

\* request_certificate up to the first wait: validation, watcher, launch.
\* The requests name the default provider and no directory_url.
request_certificate ==
    /\ pc = "idle" /\ calls < MaxCalls
    /\ calls' = calls + 1
    /\ \E ksp \in Paths \cup {NoPath}, host \in BOOLEAN,
          eab \in {RequestOf(calls + 1).eab, BadEab} :
          LET c == calls + 1 IN
          IF ksp = NoPath
          THEN /\ call' = [kind |-> "request", cert |-> c, host |-> host,
                           ksp |-> ksp, attempt |-> 0,
                           supplied |-> NoUrl, url |-> LetsEncryptUrl,
                           migrate |-> FALSE, argvs |-> << >>]
               /\ Raise("validation")
               /\ UNCHANGED << proc, launches, pump >>
          ELSE IF EabRejected(eab)
          THEN /\ call' = [NoCall EXCEPT !.kind = "request", !.cert = c]
               /\ Raise("validation")
               /\ UNCHANGED << proc, launches, pump >>
          ELSE /\ call' = [kind |-> "request", cert |-> c, host |-> host,
                           ksp |-> ksp, attempt |-> 1,
                           supplied |-> NoUrl, url |-> LetsEncryptUrl, migrate |-> FALSE,
                           argvs |-> << IssueArgv(LetsEncryptUrl, RequestOf(c).keylen,
                                                  RequestOf(c).domains, RequestOf(c).emails,
                                                  RequestOf(c).eab, AcmeDebug) >>]
               /\ pump' = Watcher(host, c)
               /\ proc' = StartProc
               /\ launches' = 1
               /\ pc' = "wait" /\ err' = "" /\ raised' = NoExc
    /\ UNCHANGED << w, toCheck, webroot, dg, storeVars, histVars, sideVars >>

\* renew_certificate up to the wait: record lookup, watcher, launch.
renew_certificate ==
    /\ pc = "idle" /\ calls < MaxCalls
    /\ calls' = calls + 1
    /\ \E c \in Certs, host \in BOOLEAN, supplied \in Urls \cup {NoUrl}, badEab \in BOOLEAN :
          LET eab == IF badEab THEN BadEab ELSE RequestOf(c).eab IN
          IF inv[c].status = "none"
          THEN /\ call' = [kind |-> "renew", cert |-> c, host |-> host,
                           ksp |-> NoPath, attempt |-> 0,
                           supplied |-> supplied, url |-> supplied,
                           migrate |-> FALSE, argvs |-> << >>]
               /\ Raise("unknown_cert")
               /\ UNCHANGED << proc, launches, pump >>
          ELSE IF EabRejected(eab)
          THEN \* the watcher thread is started before the EAB secret is read
               /\ call' = [NoCall EXCEPT !.kind = "renew", !.cert = c, !.host = host]
               /\ pump' = Watcher(host, c)
               /\ Raise("validation")
               /\ UNCHANGED << proc, launches >>
          ELSE /\ call' =
                    LET url == RenewDirectoryUrl(supplied, inv[c].url)
                        migrate == MigrateCa(url, inv[c].url)
                    IN [kind |-> "renew", cert |-> c, host |-> host,
                        ksp |-> inv[c].ksp, attempt |-> 1,
                        supplied |-> supplied, url |-> url, migrate |-> migrate,
                        argvs |-> << RenewArgv(url, migrate, RequestOf(c).domains,
                                               RequestOf(c).emails, RequestOf(c).eab,
                                               AcmeDebug) >>]
               /\ pump' = Watcher(host, c)
               /\ proc' = StartProc
               /\ launches' = 1
               /\ pc' = "wait" /\ err' = "" /\ raised' = NoExc
    /\ UNCHANGED << w, toCheck, webroot, dg, storeVars, histVars, sideVars >>

\* What follows a wait that returned (had, rc, out).
AfterWait(had, rc, out) ==
    LET k == IF call.kind = "renew" THEN ClassifyRenewWait(had, rc, out)
             ELSE IF had THEN "preflight"
             ELSE ClassifyNoFiles(call.attempt, rc, out)
    IN /\ w' = [had |-> had, rc |-> rc, out |-> out]
       /\ CASE k = "preflight" ->
                 /\ pc' = IF call.host THEN "collect" ELSE "finish"
                 /\ finishCalled' = (finishCalled \/ ~call.host)
                 /\ UNCHANGED << call, proc, launches, err, raised >>
            [] k = "finish" ->
                 /\ pc' = "finish" /\ finishCalled' = TRUE
                 /\ UNCHANGED << call, proc, launches, err, raised >>
            [] k = "install" ->
                 \* the first attempt goes on to install-cert; the force-issue
                 \* branch calls _finish(proc2) first
                 /\ pc' = IF call.attempt = 1 THEN "install" ELSE "finish"
                 /\ finishCalled' = (finishCalled \/ call.attempt # 1)
                 /\ UNCHANGED << call, proc, launches, err, raised >>
            [] k = "force" ->
                 /\ call' = [call EXCEPT
                               !.attempt = @ + 1,
                               !.argvs = Append(@, ForceArgv(call.url, RequestOf(call.cert).keylen,
                                                             RequestOf(call.cert).domains,
                                                             RequestOf(call.cert).emails,
                                                             RequestOf(call.cert).eab, AcmeDebug))]
                 /\ proc' = StartProc
                 /\ launches' = launches + 1
                 /\ pc' = "wait"
                 /\ UNCHANGED << err, raised, finishCalled >>
            [] OTHER ->
                 /\ RaiseKnown(k, out)
                 /\ UNCHANGED << call, proc, launches, finishCalled >>

\* _wait_for_challenge_files_or_proc sees a file in the challenge directory.
WaitFiles ==
    /\ pc = "wait"
    /\ webroot[call.cert] # {}
    /\ observed' = webroot[call.cert]
    /\ AfterWait(TRUE, RcNone, NoMarkers)
    /\ UNCHANGED << calls, toCheck, envVars, storeVars, sideVars,
                    preflighted, written, installedKey, keyRemoved >>

\* ... sees no file and the process has exited: its exit code and output
\* are collected (they are whatever the process ended with).
WaitExit ==
    /\ pc = "wait"
    /\ webroot[call.cert] = {}
    /\ proc = "exited"
    /\ \E rc \in ExitCodes, out \in RunOutputs : AfterWait(FALSE, rc, out)
    /\ UNCHANGED << calls, toCheck, envVars, storeVars, sideVars,
                    observed, preflighted, written, installedKey, keyRemoved >>

\* ... reaches its deadline with no file and the process still running.
WaitTimeout ==
    /\ pc = "wait"
    /\ webroot[call.cert] = {}
    /\ proc = "running"
    /\ AfterWait(FALSE, RcNone, NoMarkers)
    /\ UNCHANGED << calls, toCheck, envVars, storeVars, sideVars,
                    observed, preflighted, written, installedKey, keyRemoved >>

\* _collect_http01_challenges: every file of the directory with its content.
collect_http01_challenges(c) == [ t \in webroot[c] |-> FileContent(t) ]

Collect ==
    /\ pc = "collect"
    /\ toCheck' = collect_http01_challenges(call.cert)
    /\ pc' = "preflight"
    /\ UNCHANGED << calls, call, proc, launches, w, err, raised,
                    envVars, storeVars, histVars, sideVars >>

\* The public URL answers 200 with the expected body.
PublicTokenOk(t, expected) == Served(dg, t) /\ ServedBody(dg, t) = expected

\* Variant: the loop over the collected challenges ends after the first one.
PreflightSkipsRest(t) ==
    /\ pc = "preflight"
    /\ t \in DOMAIN toCheck
    /\ PublicTokenOk(t, toCheck[t])
    /\ preflighted' = preflighted \cup {t}
    /\ toCheck' = NoChecks
    /\ pc' = "finish" /\ finishCalled' = TRUE
    /\ UNCHANGED << calls, call, proc, launches, w, err, raised,
                    envVars, storeVars, sideVars, observed, written, installedKey, keyRemoved >>
\* _wait_public_token returns for one collected token; after the last one the
\* coordinator goes on to _finish.
wait_public_token(t) ==
    /\ pc = "preflight"
    /\ t \in DOMAIN toCheck
    /\ PublicTokenOk(t, toCheck[t])
    /\ preflighted' = preflighted \cup {t}
    /\ toCheck' = [ x \in (DOMAIN toCheck) \ {t} |-> toCheck[x] ]
    /\ IF DOMAIN toCheck = {t}
       THEN pc' = "finish" /\ finishCalled' = TRUE
       ELSE UNCHANGED << pc, finishCalled >>
    /\ UNCHANGED << calls, call, proc, launches, w, err, raised,
                    envVars, storeVars, sideVars, observed, written, installedKey, keyRemoved >>

PreflightOk == \E t \in Tokens : wait_public_token(t)

\* _wait_public_token reaches its deadline and raises.
PreflightTimeout ==
    /\ pc = "preflight"
    /\ Raise("preflight_timeout")
    /\ UNCHANGED << calls, call, proc, launches, w, toCheck,
                    envVars, storeVars, histVars, sideVars >>

\* _finish: communicate() returns once the process has exited, with the
\* exit code and output of the process (the same as an earlier communicate()
\* of the wait returned, if it had collected them).
Finish ==
    /\ pc = "finish"
    /\ proc = "exited"
    /\ \E rc \in ExitCodes, out \in RunOutputs :
          /\ w.rc # RcNone => (rc = w.rc /\ out = w.out)
          /\ LET k == IF call.kind = "renew" THEN ClassifyRenewFinish(rc, out)
                      ELSE ClassifyFinish(rc, out)
             IN IF k = "install"
                THEN pc' = "install" /\ UNCHANGED << err, raised, w >>
                ELSE RaiseKnown(k, out) /\ w' = [w EXCEPT !.rc = rc, !.out = out]
    /\ UNCHANGED << calls, call, proc, launches, toCheck,
                    envVars, storeVars, histVars, sideVars >>

\* The keys the ACME client may hold for the certificate when its run has
\* succeeded: the one it had (a renewal that keeps the domain key) or one
\* generated in this call.
RunKeys == IF call.kind = "renew" /\ certKey[call.cert] # NoKey
           THEN {certKey[call.cert], calls} ELSE {calls}

\* acme.sh --install-cert writes cert.pem, fullchain.pem and privkey.pem.
InstallOk ==
    /\ pc = "install"
    /\ \E k \in RunKeys :
          /\ disk' = [disk EXCEPT ![call.cert] =
                         [fullchain |-> TRUE, dates |-> CertDates(calls), privkey |-> k]]
          /\ certKey' = [certKey EXCEPT ![call.cert] = k]
          /\ installedKey' = k
    /\ pc' = IF call.kind = "renew" THEN "remove" ELSE "vault"
    /\ UNCHANGED << calls, call, proc, launches, w, err, raised, toCheck, envVars, vault, inv,
                    sideVars, observed, preflighted, finishCalled, written, keyRemoved >>

InstallFail ==
    /\ pc = "install"
    /\ Raise("install_failed")
    /\ UNCHANGED << calls, call, proc, launches, w, toCheck,
                    envVars, storeVars, histVars, sideVars >>

\* key_text = read(privkey.pem); vault.write(key_secret_path, {private_key_pem}).
VaultWriteOk ==
    /\ pc = "vault"
    /\ vault' = [vault EXCEPT ![call.ksp] = disk[call.cert].privkey]
    /\ pc' = "remove"
    /\ UNCHANGED << calls, call, proc, launches, w, err, raised, toCheck, envVars, disk, inv,
                    certKey, histVars, sideVars >>

\* Variant: the inventory record is created before the secret store write.
VaultWriteFailAfterCreate ==
    /\ pc = "vault"
    /\ inv' = [inv EXCEPT ![call.cert] =
                  [NoRec EXCEPT !.status = "issued", !.ksp = call.ksp]]
    /\ Raise("secret_store")
    /\ UNCHANGED << calls, call, proc, launches, w, toCheck,
                    envVars, vault, disk, certKey, histVars, sideVars >>
\* Vault.write raises RuntimeError on any request failure.
VaultWriteFail ==
    /\ pc = "vault"
    /\ Raise("secret_store")
    /\ UNCHANGED << calls, call, proc, launches, w, toCheck,
                    envVars, storeVars, histVars, sideVars >>

\* os.remove(privkey.pem). (A failing remove is swallowed by the code; the
\* file was written a moment ago by the same user, and the remove is taken
\* to succeed.)
RemoveKeyOk ==
    /\ pc = "remove"
    /\ disk' = [disk EXCEPT ![call.cert].privkey = NoKey]
    /\ keyRemoved' = TRUE
    /\ pc' = "dates"
    /\ UNCHANGED << calls, call, proc, launches, w, err, raised, toCheck, envVars, vault, inv,
                    certKey, sideVars, observed, preflighted, finishCalled, written,
                    installedKey >>

\* _parse_dates, then inv.create (issue) or inv.update_dates (renew).
Persist ==
    /\ pc = "dates"
    /\ LET d == parse_dates(OpensslDates(disk[call.cert].dates))
       IN IF call.kind = "renew"
          THEN /\ inv' = [inv EXCEPT ![call.cert].nb = d.nb, ![call.cert].na = d.na]
               /\ pc' = "done"
          ELSE /\ inv' = [inv EXCEPT ![call.cert] =
                             [status |-> "issued", ksp |-> call.ksp,
                              nb |-> d.nb, na |-> d.na, deployed |-> NoDoc,
                              url |-> call.url]]
               /\ pc' = "store"
    /\ UNCHANGED << calls, call, proc, launches, w, err, raised, toCheck, envVars, vault, disk,
                    certKey, histVars, sideVars >>

\* openssl exits non-zero, or the inventory statement fails.
PersistFail ==
    /\ pc = "dates"
    /\ \E k \in {"dates_failed", "inventory"} : Raise(k)
    /\ UNCHANGED << calls, call, proc, launches, w, toCheck,
                    envVars, storeVars, histVars, sideVars >>

\* challenges = _collect_http01_challenges(webroot); store them if any.
StoreChallenges ==
    /\ pc = "store"
    /\ LET challenges == collect_http01_challenges(call.cert)
       IN inv' = IF challenges # NoChecks
                 THEN Inventory_store_challenges(inv, call.cert, challenges)
                 ELSE inv
    /\ pc' = "done"
    /\ UNCHANGED << calls, call, proc, launches, w, err, raised, toCheck, envVars, vault, disk,
                    certKey, histVars, sideVars >>

StoreChallengesFail ==
    /\ pc = "store"
    /\ webroot[call.cert] # {}
    /\ Raise("inventory")
    /\ UNCHANGED << calls, call, proc, launches, w, toCheck,
                    envVars, storeVars, histVars, sideVars >>

\* The call has returned or raised: the coordinator serves the next one.
\* The next call comes after the deadline of this call's Pump thread, and
\* what the orphaned ACME process and Pump do until then is left out.
Return ==
    /\ pc \in {"done", "failed"}
    /\ pc' = "idle" /\ call' = NoCall /\ proc' = NoProc /\ launches' = 0
    /\ pump' = PumpOff
    /\ w' = NoWait /\ err' = "" /\ raised' = NoExc /\ toCheck' = NoChecks
    /\ observed' = {} /\ preflighted' = {} /\ finishCalled' = FALSE /\ written' = {}
    /\ installedKey' = NoKey /\ keyRemoved' = FALSE
    /\ UNCHANGED << calls, webroot, dg, storeVars, sideVars >>

\* revoke_certificate: acme.sh --revoke, then update_status(revoked).
revoke_certificate ==
    /\ pc = "idle" /\ calls < MaxCalls
    /\ calls' = calls + 1
    /\ \E c \in Certs, ok \in BOOLEAN :
          /\ call' = [NoCall EXCEPT !.kind = "revoke", !.cert = c]
          /\ IF inv[c].status = "none" THEN Raise("unknown_cert") /\ inv' = inv
             ELSE IF ~ok THEN Raise("acme_failed") /\ inv' = inv
             ELSE /\ inv' = [inv EXCEPT ![c].status = "revoked"]
                  /\ pc' = "done" /\ err' = "" /\ raised' = NoExc
    /\ UNCHANGED << proc, launches, w, toCheck, envVars, vault, disk, certKey,
                    histVars, sideVars >>

\* deploy_to_bigip: read the key, the LB steps, then mark_deployed.
deploy_to_bigip ==
    /\ pc = "idle" /\ calls < MaxCalls
    /\ calls' = calls + 1
    /\ \E c \in Certs, lbOk \in BOOLEAN :
          /\ call' = [NoCall EXCEPT !.kind = "deploy", !.cert = c]
          /\ IF inv[c].status = "none" THEN Raise("unknown_cert") /\ inv' = inv
             ELSE IF vault[inv[c].ksp] = NoKey THEN Raise("vault_read_failed") /\ inv' = inv
             ELSE IF ~lbOk THEN Raise("lb_api_error") /\ inv' = inv
             ELSE /\ inv' = Inventory_mark_deployed(inv, c, DeployHost)
                  /\ pc' = "done" /\ err' = "" /\ raised' = NoExc
    /\ UNCHANGED << proc, launches, w, toCheck, envVars, vault, disk, certKey,
                    histVars, sideVars >>

Next ==
    \/ request_certificate \/ renew_certificate
    \/ revoke_certificate \/ deploy_to_bigip
    \/ AcmeWrite \/ AcmeExit
    \/ PumpPublish \/ PumpLBError \/ PumpExpire
    \/ WaitFiles \/ WaitExit \/ WaitTimeout
    \/ Collect \/ PreflightOk \/ PreflightTimeout \/ Finish
    \/ InstallOk \/ InstallFail
    \/ VaultWriteOk \/ VaultWriteFail
    \/ RemoveKeyOk
    \/ Persist \/ PersistFail
    \/ StoreChallenges \/ StoreChallengesFail
    \/ Return

Spec == Init /\ [][Next]_vars

\* ------------------------------------------------- SpecDG: datagroup writers
\* Each writer runs upsert_http01_records(M) as the sequence of its REST
\* calls: GET (ensure), POST on 404, GET (read), PATCH if changed.
TokenMaps == UNION { [S -> Tokens] : S \in SUBSET Tokens }

\* The datagroups the writers may find: none, or one whose rows the LB holds
\* by name.
InitialDGs ==
    {NoDG} \cup { [exists |-> TRUE, records |-> SortedRecords(m)] : m \in TokenMaps }

\* A writer in its first call of upsert_http01_records(M); wrote tells
\* whether the call in progress has sent its PATCH.
NewWriter(M) == [st |-> "ensure", M |-> M, existing |-> NoChecks, round |-> 1,
                 wrote |-> FALSE]

\* One writer, or two whose token sets are disjoint.
WriterSets ==
    { << NewWriter(M) >> : M \in TokenMaps }
    \cup { << NewWriter(pr[1]), NewWriter(pr[2]) >> :
             pr \in { q \in TokenMaps \X TokenMaps : (DOMAIN q[1]) \cap (DOMAIN q[2]) = {} } }

InitDG ==
    /\ InitOrchestrator
    /\ dg \in InitialDGs
    /\ dg0 = dg
    /\ wr \in WriterSets
    /\ NoFn

\* A writer's step leaves the orchestrator's state alone.
DgFrame == UNCHANGED << coordVars, pump, webroot, storeVars, histVars, dg0, fnVars >>

\* ensure_string_dg: GET of the datagroup, 200 or 404.
DgEnsureGet(i) ==
    /\ wr[i].st = "ensure"
    /\ wr' = [wr EXCEPT ![i].st = IF dg.exists THEN "read" ELSE "post"]
    /\ UNCHANGED dg /\ DgFrame

\* ensure_string_dg after a 404: POST creates the datagroup with no records.
DgEnsurePost(i) ==
    /\ wr[i].st = "post"
    /\ ~dg.exists
    /\ dg' = [exists |-> TRUE, records |-> << >>]
    /\ wr' = [wr EXCEPT ![i].st = "read"]
    /\ DgFrame

\* ... but another writer has created it meanwhile: the POST answers 409,
\* raise_for_status raises and nothing catches it.
DgPostConflict(i) ==
    /\ wr[i].st = "post"
    /\ dg.exists
    /\ wr' = [wr EXCEPT ![i].st = "failed"]
    /\ UNCHANGED dg /\ DgFrame

\* read_dg_records and the loop over the tokens.
DgRead(i) ==
    /\ wr[i].st = "read"
    /\ LET existing == ExistingMap(dg.records)
       IN wr' = [wr EXCEPT ![i].existing = existing,
                           ![i].st = IF UpsertChanged(existing, wr[i].M)
                                     THEN "write" ELSE "done"]
    /\ UNCHANGED dg /\ DgFrame

\* write_dg_records: PATCH of the whole records array.
DgWrite(i) ==
    /\ wr[i].st = "write"
    /\ dg' = [dg EXCEPT !.records = SortedRecords(UpsertMerge(wr[i].existing, wr[i].M))]
    /\ wr' = [wr EXCEPT ![i].st = "done", ![i].wrote = TRUE]
    /\ DgFrame

\* The caller repeats the upsert it has finished, with the same token map
\* (publish_http01_challenges called again with the same challenges).
DgRepeat(i) ==
    /\ wr[i].st = "done" /\ wr[i].round < MaxRounds
    /\ wr' = [wr EXCEPT ![i].st = "ensure", ![i].round = @ + 1, ![i].wrote = FALSE]
    /\ UNCHANGED dg /\ DgFrame

NextDG ==
    \/ \E i \in 1..Len(wr) : DgEnsureGet(i)
    \/ \E i \in 1..Len(wr) : DgEnsurePost(i)
    \/ \E i \in 1..Len(wr) : DgPostConflict(i)
    \/ \E i \in 1..Len(wr) : DgRead(i)
    \/ \E i \in 1..Len(wr) : DgWrite(i)
    \/ \E i \in 1..Len(wr) : DgRepeat(i)

SpecDG == InitDG /\ [][NextDG]_vars

\* ------------------------------------- SpecFn: the adapters' pure functions
\* A text is the sequence of its words and separators: "/" and " " stand for
\* themselves, every other word is one path segment.
KvWords == {"/", " ", "v1", "secret", "data", "tls"}
RECURSIVE Texts(_)
Texts(n) == IF n = 0 THEN { << >> }
            ELSE Texts(n - 1) \cup { Append(t, x) : t \in Texts(n - 1), x \in KvWords }

startswith(s, prefix) ==
    Len(s) >= Len(prefix) /\ SubSeq(s, 1, Len(prefix)) = prefix
RemovePrefix(s, prefix) == SubSeq(s, Len(prefix) + 1, Len(s))

\* str.strip() and str.lstrip("/")
RECURSIVE lstrip(_, _)
lstrip(s, x) == IF s # << >> /\ Head(s) = x THEN lstrip(Tail(s), x) ELSE s
RECURSIVE rstrip(_, _)
rstrip(s, x) ==
    IF s # << >> /\ s[Len(s)] = x THEN rstrip(SubSeq(s, 1, Len(s) - 1), x) ELSE s
strip(s) == rstrip(lstrip(s, " "), " ")

\* Variant: the leading slashes stay.
normalize_kv2_keeps_slash(path) ==
    LET p0 == strip(path)
        p1 == IF startswith(p0, << "v1", "/" >>) THEN RemovePrefix(p0, << "v1", "/" >>) ELSE p0
    IN IF startswith(p1, << "secret", "/", "data", "/" >>)
       THEN RemovePrefix(p1, << "secret", "/", "data", "/" >>) ELSE p1
\* _normalize_kv2: strip, drop leading slashes, drop one "v1/", then drop
\* one "secret/data/".
normalize_kv2(path) ==
    LET p0 == lstrip(strip(path), "/")
        p1 == IF startswith(p0, << "v1", "/" >>) THEN RemovePrefix(p0, << "v1", "/" >>) ELSE p0
    IN IF startswith(p1, << "secret", "/", "data", "/" >>)
       THEN RemovePrefix(p1, << "secret", "/", "data", "/" >>) ELSE p1

\* The accepted shapes of a path: the leaf behind one of these prefixes.
KvPrefixes ==
    { << >>,
      << "/", "secret", "/", "data", "/" >>,
      << "v1", "/", "secret", "/", "data", "/" >>,
      << "/", "v1", "/", "secret", "/", "data", "/" >> }

\* The KV-v2 store: a body for each leaf that has an entry. A body is the
\* set of its << key, value >> pairs.
KvStoreLeaves == { << "tls" >>, << "data", "/", "tls" >> }
KvBodies == { {},
              { << "private_key_pem", "key-1" >> },
              { << "kid", "kid-1" >>, << "hmac_key", "hmac-1" >> } }
KvStores == UNION { [S -> KvBodies] : S \in SUBSET KvStoreLeaves }
KvReadPaths == KvStoreLeaves \cup { << "/", "secret", "/", "data", "/", "tls" >>, << "v1" >> }

\* GET /v1/secret/data/<leaf>: 200 with {"data": {"data": body}} for an
\* entry, 404 without one.
VaultGet(store, leaf) ==
    IF leaf \in DOMAIN store
    THEN [status_code |-> 200, json |-> [data |-> [data |-> store[leaf]]]]
    ELSE [status_code |-> 404, json |-> [data |-> [data |-> {}]]]

\* Response.raise_for_status() raises for 4xx and 5xx.
raise_for_status(r) == r.status_code >= 400

\* Vault.read: the inner data.data of the answer, or RuntimeError("Vault
\* read failed ...") when the request raised.
Vault_read(store, path) ==
    LET r == VaultGet(store, normalize_kv2(path))
    IN IF raise_for_status(r) THEN [raised |-> TRUE, value |-> {}]
       ELSE [raised |-> FALSE, value |-> r.json.data.data]

Min(a, b) == IF a < b THEN a ELSE b
\* content[i:j] of Python: 0-based, j exclusive and capped by the length.
Slice(content, i, j) == SubSeq(content, i + 1, Min(j, Len(content)))
Contents == { [i \in 1..n |-> i] : n \in 0..MaxTotal }

\* Variant: the end of a chunk is not capped by the length of the content.
ChunkEndUncapped(offset, chunk_size, total) == offset + chunk_size
\* end = min(offset + chunk_size, total)
ChunkEnd(offset, chunk_size, total) == Min(offset + chunk_size, total)

\* The headers of the POST of content[offset:end].
UploadPost(content, offset, end) ==
    [first |-> offset, last |-> end - 1, total |-> Len(content),
     content_length |-> Len(Slice(content, offset, end))]

FnFrame == UNCHANGED << coordVars, envVars, storeVars, histVars, dgVars >>

\* One call of Vault.read.
VaultReadCall ==
    /\ \E store \in KvStores, path \in KvReadPaths :
          /\ fn' = "Vault.read"
          /\ arg' = [store |-> store, path |-> path]
          /\ res' = Vault_read(store, path)
    /\ FnFrame

\* _normalize_kv2 of a shape of a leaf, and of its own result.
NormalizeCall ==
    /\ \E leaf \in Texts(MaxLeaf), prefix \in KvPrefixes :
          /\ fn' = "_normalize_kv2"
          /\ arg' = [leaf |-> leaf, path |-> prefix \o leaf]
          /\ res' = [once |-> normalize_kv2(prefix \o leaf),
                     twice |-> normalize_kv2(normalize_kv2(prefix \o leaf))]
    /\ FnFrame

\* _upload_octets is called: empty content raises ValueError.
UploadCall ==
    /\ IF fn = "_upload_octets" THEN res.st # "loop" ELSE TRUE
    /\ \E content \in Contents, chunk_size \in 1..MaxChunk :
          /\ fn' = "_upload_octets"
          /\ arg' = [content |-> content, chunk_size |-> chunk_size]
          /\ res' = [st |-> IF Len(content) = 0 THEN "raised" ELSE "loop",
                     offset |-> 0, posts |-> << >>]
    /\ FnFrame

\* One turn of the loop: the POST of the next chunk, answered 200 or not.
UploadChunk ==
    /\ fn = "_upload_octets" /\ res.st = "loop"
    /\ res.offset < Len(arg.content)
    /\ \E ok \in BOOLEAN :
          LET end == ChunkEnd(res.offset, arg.chunk_size, Len(arg.content))
          IN res' = [st |-> IF ok THEN "loop" ELSE "raised",
                     offset |-> IF ok THEN end ELSE res.offset,
                     posts |-> Append(res.posts, UploadPost(arg.content, res.offset, end))]
    /\ UNCHANGED << fn, arg >>
    /\ FnFrame

\* The loop ends: the path of the uploaded file is returned.
UploadReturn ==
    /\ fn = "_upload_octets" /\ res.st = "loop"
    /\ res.offset >= Len(arg.content)
    /\ res' = [res EXCEPT !.st = "returned"]
    /\ UNCHANGED << fn, arg >>
    /\ FnFrame

\* What request_certificate makes of the outcome of its first ACME run:
\* with files it goes on to _finish, without them it classifies the output
\* of the wait.
RequestOutcome(had, rc, out) ==
    IF had THEN ClassifyFinish(rc, out) ELSE ClassifyNoFiles(1, rc, out)
\* What renew_certificate makes of it: the EAB marker is looked for first,
\* and a no-files success goes through _finish.
RenewOutcome(had, rc, out) ==
    IF had THEN ClassifyRenewFinish(rc, out)
    ELSE LET k == ClassifyRenewWait(FALSE, rc, out)
         IN IF k = "finish" THEN ClassifyRenewFinish(rc, out) ELSE k
\* The classification of an outcome: success, rate-limited, EAB-required or
\* unknown failure (reruns and not-managed kept apart).
Classification(k) ==
    IF k \in {"install", "finish"} THEN "success"
    ELSE IF k \in {"no_challenge_files", "acme_failed"} THEN "unknown_failure"
    ELSE k

\* The outcomes of an ACME run: any combination of markers in its output; a
\* run seen with files has exited by the time of _finish.
ClassifyCall ==
    /\ \E had \in BOOLEAN, rc \in ExitCodes \cup {RcNone},
          out \in { m \in Markers : m.retry = NoRetry } :
          /\ had => rc # RcNone
          /\ rc = RcNone => out = NoMarkers
          /\ fn' = "classify"
          /\ arg' = [had |-> had, rc |-> rc, out |-> out]
          /\ res' = [request |-> Classification(RequestOutcome(had, rc, out)),
                     renew |-> Classification(RenewOutcome(had, rc, out))]
    /\ FnFrame

\* The spellings of the partition the adapter accepts, and an unqualified
\* profile name; the object names deploy_to_bigip builds have no slash.
PartitionSpellings == { << "Common" >>, << "/", "Common" >>, << "/", "Common", "/" >> }
ProfileNames == { << "clientssl_a" >> }
ObjectNames == { << "a_1.key" >>, << "a_1.crt" >>, << "a_1_chain.crt" >> }

\* partition.strip("/")
StripSlashes(partition) == rstrip(lstrip(partition, "/"), "/")
\* ensure_clientssl_profile: prof = f"/{partition.strip('/')}/{name}"
EnsuredProfile(partition, name) == << "/" >> \o StripSlashes(partition) \o << "/" >> \o name
\* attach_to_clientssl:
\* prof = profile if profile.startswith("/") else f"{partition}/{profile}"
AttachedProfile(partition, profile) ==
    IF startswith(profile, << "/" >>) THEN profile ELSE partition \o << "/" >> \o profile
\* f"/mgmt/tm/ltm/profile/client-ssl/{prof.replace('/','~')}", the part
\* after the collection.
RestPath(prof) == [ i \in 1..Len(prof) |-> IF prof[i] = "/" THEN "~" ELSE prof[i] ]
\* attach_to_clientssl: key_fq = f"/{partition.strip('/')}/{keyname}"
ObjectFq(partition, name) == << "/" >> \o StripSlashes(partition) \o << "/" >> \o name
\* _install_key/_install_cert: {"name": name, "partition": partition.strip("/")},
\* the object /<partition>/<name>.
InstalledObject(partition, name) ==
    << "/" >> \o StripSlashes(partition) \o << "/" >> \o name

\* deploy_to_bigip's calls of the adapter with one partition and profile:
\* what was installed and ensured, and what attach_to_clientssl addresses.
AttachPathsCall ==
    /\ \E partition \in PartitionSpellings, clientssl \in ProfileNames :
          /\ fn' = "attach_to_clientssl"
          /\ arg' = [partition |-> partition, profile |-> clientssl]
          /\ res' = [ensured |-> EnsuredProfile(partition, clientssl),
                     ensured_path |-> RestPath(EnsuredProfile(partition, clientssl)),
                     patch_path |-> RestPath(AttachedProfile(partition, clientssl)),
                     tmsh_profile |-> AttachedProfile(partition, clientssl),
                     referenced |-> { ObjectFq(partition, n) : n \in ObjectNames },
                     installed |-> { InstalledObject(partition, n) : n \in ObjectNames }]
    /\ FnFrame

NextFn ==
    \/ VaultReadCall
    \/ NormalizeCall
    \/ ClassifyCall
    \/ AttachPathsCall
    \/ UploadCall \/ UploadChunk \/ UploadReturn

SpecFn == Init /\ [][NextFn]_vars

\* ------------------------------------ SpecOps: the synchronous operations
\* deploy_to_bigip, attach_to_clientssl, get_bundle, finalize_order and
\* publish_http01_challenges over stores that issuance has filled. fn is the
\* operation, arg its arguments, res its progress: res.st is the step it is
\* at ("returned" and "raised" at its end), res.reqs the requests sent to
\* the LB so far.

\* The inventory record, working directory and key of an issued certificate.
IssuedRec(ksp, status, earlier) ==
    [status |-> status, ksp |-> ksp, nb |-> CertDates(1)[1], na |-> CertDates(1)[2],
     deployed |-> JsonbConcat(IF status = "deployed" THEN BigipDoc(EarlierHost) ELSE NoDoc,
                              IF earlier = NoChecks THEN NoDoc ELSE ChallengesDoc(earlier)),
     url |-> LetsEncryptUrl]
\* The challenges stored with a record by its issuance, if any.
EarlierChallenges == {NoChecks, [t \in {1} |-> KeyAuth(1)]}
IssuedDisk == [fullchain |-> TRUE, dates |-> CertDates(1), privkey |-> NoKey]
StoredKey == 1

\* The datagroups earlier Pump threads have left: none, or the rows of some
\* challenge files.
OpsDGs ==
    {NoDG} \cup { [exists |-> TRUE, records |-> SortedRecords([t \in S |-> KeyAuth(t)])] :
                    S \in SUBSET Tokens }

\* The stores the operations find: the first certificate is unknown, issued,
\* already deployed or revoked, with its key at tls/a, the others are unknown; the secret store is
\* shared with its administrators and the entry may be gone.
InitOps ==
    /\ calls = 0 /\ pc = "idle" /\ call = NoCall /\ proc = NoProc
    /\ launches = 0 /\ w = NoWait /\ err = "" /\ raised = NoExc /\ toCheck = NoChecks
    /\ pump = PumpOff
    /\ webroot = [c \in Certs |-> {}]
    /\ \E known \in {{}, {1}}, status \in {"issued", "deployed", "revoked"},
          earlier \in EarlierChallenges :
          /\ inv = [c \in Certs |-> IF c \in known THEN IssuedRec("tls/a", status, earlier)
                                    ELSE NoRec]
          /\ disk = [c \in Certs |-> IF c \in known THEN IssuedDisk ELSE NoDisk]
          /\ certKey = [c \in Certs |-> IF c \in known THEN StoredKey ELSE NoKey]
    /\ \E k \in {NoKey, StoredKey} : vault = [p \in Paths |-> IF p = "tls/a" THEN k ELSE NoKey]
    /\ dg \in OpsDGs
    /\ observed = {} /\ preflighted = {} /\ finishCalled = FALSE /\ written = {}
    /\ installedKey = NoKey /\ keyRemoved = FALSE
    /\ wr = NoWriters /\ dg0 = NoDG
    /\ NoFn

\* No operation has been called: a behaviour follows one operation from the
\* stores it finds to its return or its exception.
OpIdle == fn = "none"

\* What an operation leaves alone besides the stores it names.
OpsFrame == UNCHANGED << coordVars, pump, webroot, certKey, histVars, dgVars >>

\* The names of the three LB files and the full paths of attach_to_clientssl.
KeyName == "base.key"
CertName == "base.crt"
ChainName == "base_chain.crt"
Partition == "/Common"
Fq(name) == << Partition, name >>

\* The requests of the LB adapter.
UploadReq(name) == [method |-> "POST", path |-> "uploads", what |-> << name >>]
InstallReq(kind, name) == [method |-> "POST", path |-> kind, what |-> << name >>]
EnsureGetReq == [method |-> "GET", path |-> "client-ssl", what |-> << >>]
EnsurePostReq == [method |-> "POST", path |-> "client-ssl", what |-> << >>]
\* payload = {"certKeyChain": [{"name": "default", key, cert, chain}]}
AttachPatchReq(keyname, certname, chainname) ==
    [method |-> "PATCH", path |-> "client-ssl",
     what |-> << Fq(keyname), Fq(certname), Fq(chainname) >>]
\* tmsh modify ltm profile client-ssl <prof> cert-key-chain replace-all-with
\* { default { key .. cert .. chain .. } }
AttachBashReq(keyname, certname, chainname) ==
    [method |-> "POST", path |-> "util/bash",
     what |-> << Fq(keyname), Fq(certname), Fq(chainname) >>]
VsBashReq == [method |-> "POST", path |-> "util/bash", what |-> << "virtual" >>]

\* How a request ends: answered 2xx, answered with an HTTP error status
\* (raise_for_status raises HTTPError), or not answered at all.
Outcomes == {"ok", "http_error", "no_answer"}

\* Variant: the key is not looked at before the LB is contacted.
DeployAfterKeyReadUnchecked(key) == "upload_key"
\* keyobj = vault.read(key_secret_path): a missing entry raises.
DeployAfterKeyRead(key) == IF key = NoKey THEN "raised" ELSE "upload_key"

\* The step after a step of deploy_to_bigip that succeeded.
DeployAfter(st, create_profile, virtual_server) ==
    CASE st = "upload_key" -> "upload_cert"
      [] st = "upload_cert" -> "upload_chain"
      [] st = "upload_chain" -> "install_key"
      [] st = "install_key" -> "install_cert"
      [] st = "install_cert" -> "install_chain"
      [] st = "install_chain" -> IF create_profile THEN "ensure_get" ELSE "attach_patch"
      [] st \in {"ensure_get", "ensure_post"} -> "attach_patch"
      [] st \in {"attach_patch", "attach_bash"} -> IF virtual_server THEN "vs" ELSE "mark"
      [] st = "vs" -> "mark"

\* The request of a plain step (one request, any failure raises).
PlainReq(st) ==
    CASE st = "upload_key" -> UploadReq(KeyName)
      [] st = "upload_cert" -> UploadReq(CertName)
      [] st = "upload_chain" -> UploadReq(ChainName)
      [] st = "install_key" -> InstallReq("ssl-key", KeyName)
      [] st = "install_cert" -> InstallReq("ssl-cert", CertName)
      [] st = "install_chain" -> InstallReq("ssl-cert", ChainName)
      [] st = "ensure_post" -> EnsurePostReq
      [] st = "attach_bash" -> AttachBashReq(KeyName, CertName, ChainName)
      [] st = "vs" -> VsBashReq
PlainSteps == {"upload_key", "upload_cert", "upload_chain", "install_key",
               "install_cert", "install_chain", "ensure_post", "attach_bash", "vs"}

\* Variant: a failed PATCH is not followed by the tmsh command.
AttachAfterPatchNoFallback(outcome, virtual_server) ==
    IF outcome = "ok" THEN DeployAfter("attach_patch", FALSE, virtual_server)
    ELSE "raised"
\* attach_to_clientssl after its PATCH: done, the tmsh fallback on HTTPError,
\* or the exception of a request that was not answered.
AttachAfterPatch(outcome, virtual_server) ==
    IF outcome = "ok" THEN DeployAfter("attach_patch", FALSE, virtual_server)
    ELSE IF outcome = "http_error" THEN "attach_bash"
    ELSE "raised"

\* deploy_to_bigip up to the LB adapter: record, files, key.
DeployCall ==
    /\ OpIdle
    /\ \E c \in Certs, create_profile \in BOOLEAN, virtual_server \in BOOLEAN :
          /\ fn' = "deploy_to_bigip"
          /\ arg' = [cert |-> c, create_profile |-> create_profile,
                     virtual_server |-> virtual_server, rec |-> inv[c]]
          /\ res' = IF inv[c].status = "none"
                    THEN [st |-> "raised", err |-> "unknown_cert", reqs |-> << >>,
                          patch |-> "none"]
                    ELSE LET st == DeployAfterKeyRead(vault[inv[c].ksp])
                         IN [st |-> st,
                             err |-> IF st = "raised" THEN "vault_read_failed" ELSE "",
                             reqs |-> << >>, patch |-> "none"]
    /\ UNCHANGED << storeVars, dg >> /\ OpsFrame

\* A step of one request: it succeeds or raises.
DeployPlainStep ==
    /\ fn = "deploy_to_bigip" /\ res.st \in PlainSteps
    /\ \E outcome \in Outcomes :
          res' = [res EXCEPT
                    !.st = IF outcome = "ok"
                           THEN DeployAfter(res.st, arg.create_profile, arg.virtual_server)
                           ELSE "raised",
                    !.err = IF outcome = "ok" THEN "" ELSE "lb_api_error",
                    !.reqs = Append(res.reqs, PlainReq(res.st))]
    /\ UNCHANGED << fn, arg, storeVars, dg >> /\ OpsFrame

\* ensure_clientssl_profile: GET; the profile is created on 404 only.
DeployEnsureGet ==
    /\ fn = "deploy_to_bigip" /\ res.st = "ensure_get"
    /\ \E status \in {200, 404, 500} :
          res' = [res EXCEPT
                    !.st = IF status = 200
                           THEN DeployAfter("ensure_get", TRUE, arg.virtual_server)
                           ELSE IF status = 404 THEN "ensure_post" ELSE "raised",
                    !.err = IF status = 500 THEN "lb_api_error" ELSE "",
                    !.reqs = Append(res.reqs, EnsureGetReq)]
    /\ UNCHANGED << fn, arg, storeVars, dg >> /\ OpsFrame

\* attach_to_clientssl: the PATCH of the profile.
DeployAttachPatch ==
    /\ fn = "deploy_to_bigip" /\ res.st = "attach_patch"
    /\ \E outcome \in Outcomes :
          LET st == AttachAfterPatch(outcome, arg.virtual_server)
          IN res' = [st |-> st,
                     err |-> IF st = "raised" THEN "lb_api_error" ELSE "",
                     reqs |-> Append(res.reqs, AttachPatchReq(KeyName, CertName, ChainName)),
                     patch |-> outcome]
    /\ UNCHANGED << fn, arg, storeVars, dg >> /\ OpsFrame

\* inv.mark_deployed, and the return.
DeployMark ==
    /\ fn = "deploy_to_bigip" /\ res.st = "mark"
    /\ \E ok \in BOOLEAN :
          IF ok
          THEN /\ inv' = Inventory_mark_deployed(inv, arg.cert, DeployHost)
               /\ res' = [res EXCEPT !.st = "returned"]
          ELSE /\ inv' = inv
               /\ res' = [res EXCEPT !.st = "raised", !.err = "inventory"]
    /\ UNCHANGED << fn, arg, vault, disk, dg >> /\ OpsFrame

\* The stores an operation may touch, as one value.
Stores == [inv |-> inv, vault |-> vault, disk |-> disk, webroot |-> webroot, dg |-> dg]

\* time.sleep(min(wait_seconds, 120)) if wait_seconds > 0.
SleepCap == 120
WaitSeconds == {-1, 0, 60, 120, 121, 300}
\* Variant: the sleep is not capped.
SleptUncapped(wait_seconds) == IF wait_seconds > 0 THEN wait_seconds ELSE 0
SecondsSlept(wait_seconds) ==
    IF wait_seconds > 0 THEN Min(wait_seconds, SleepCap) ELSE 0

\* finalize_order: the record is read, the call sleeps and returns the
\* record's status and dates. arg.before is the stores at the call.
FinalizeOrder ==
    /\ OpIdle
    /\ \E c \in Certs, wait_seconds \in WaitSeconds :
          /\ fn' = "finalize_order"
          /\ arg' = [cert |-> c, wait_seconds |-> wait_seconds, before |-> Stores]
          /\ res' = IF inv[c].status = "none"
                    THEN [st |-> "raised", err |-> "unknown_cert", slept |-> 0,
                          ret |-> << >>]
                    ELSE [st |-> "returned", err |-> "", slept |-> SecondsSlept(wait_seconds),
                          ret |-> << inv[c].status, inv[c].nb, inv[c].na >>]
    /\ UNCHANGED << storeVars, dg >> /\ OpsFrame

\* The fields of the bundle without the key.
BundleFields == {"cert_id", "cert_pem", "chain_pem", "not_before", "not_after", "san"}

\* Variant: the key is handed out whenever it is asked for.
KeyExportUnchecked(include_key, allow_key_export) ==
    IF include_key THEN "read_key" ELSE "return"
\* get_bundle after building the answer: the key is read only when asked
\* for and allowed by policy.
KeyExport(include_key, allow_key_export) ==
    IF ~include_key THEN "return"
    ELSE IF ~allow_key_export THEN "permission"
    ELSE "read_key"

\* get_bundle of an orchestrator built with allow_key_export.
GetBundle ==
    /\ OpIdle
    /\ \E c \in Certs, include_key \in BOOLEAN, allow_key_export \in BOOLEAN :
          /\ fn' = "get_bundle"
          /\ arg' = [cert |-> c, include_key |-> include_key,
                     allow_key_export |-> allow_key_export, before |-> Stores]
          /\ res' =
               LET k == KeyExport(include_key, allow_key_export)
                   none == [st |-> "raised", err |-> "", fields |-> {},
                            private_key_pem |-> NoKey, vault_reads |-> 0]
               IN IF inv[c].status = "none" THEN [none EXCEPT !.err = "unknown_cert"]
                  ELSE IF k = "permission" THEN [none EXCEPT !.err = "permission"]
                  ELSE IF k = "return"
                  THEN [none EXCEPT !.st = "returned", !.fields = BundleFields]
                  ELSE IF vault[inv[c].ksp] = NoKey
                  THEN [none EXCEPT !.err = "vault_read_failed", !.vault_reads = 1]
                  ELSE [none EXCEPT !.st = "returned",
                                    !.fields = BundleFields \cup {"private_key_pem"},
                                    !.private_key_pem = vault[inv[c].ksp],
                                    !.vault_reads = 1]
    /\ UNCHANGED << storeVars, dg >> /\ OpsFrame

\* The challenges handed to publish_http01_challenges: token 0 is an entry
\* without path, keyAuthorization 0 one without keyAuthorization.
ChallengeEntries == [token : 0..MaxTokens, keyAuthorization : 0..MaxTokens]
RECURSIVE ListsUpTo(_, _)
ListsUpTo(S, n) ==
    IF n = 0 THEN { << >> }
    ELSE ListsUpTo(S, n - 1) \cup { Append(l, e) : l \in ListsUpTo(S, n - 1), e \in S }
ChallengeLists == ListsUpTo(ChallengeEntries, MaxChallenges)

RECURSIVE token_map(_)
\* token_map[tok] = keyauth for every entry with path and keyAuthorization,
\* a later entry of the same token replacing an earlier one.
token_map(challenges) ==
    IF challenges = << >> THEN NoChecks
    ELSE LET front == token_map(SubSeq(challenges, 1, Len(challenges) - 1))
             ch == challenges[Len(challenges)]
         IN IF ch.token # 0 /\ ch.keyAuthorization # 0
            THEN [ t \in (DOMAIN front) \cup {ch.token} |->
                     IF t = ch.token THEN ch.keyAuthorization ELSE front[t] ]
            ELSE front

\* publish_http01_challenges up to the LB adapter.
PublishCall ==
    /\ OpIdle
    /\ \E c \in Certs, challenges \in ChallengeLists :
          /\ fn' = "publish_http01_challenges"
          /\ arg' = [cert |-> c, challenges |-> challenges, before |-> Stores]
          /\ res' = IF challenges = << >> \/ DOMAIN token_map(challenges) = {}
                    THEN [st |-> "raised", err |-> "validation"]
                    ELSE [st |-> "upsert", err |-> ""]
    /\ UNCHANGED << storeVars, dg >> /\ OpsFrame

\* b.upsert_http01_records(partition, dg_name, token_map)
PublishUpsert ==
    /\ fn = "publish_http01_challenges" /\ res.st = "upsert"
    /\ \E ok \in BOOLEAN :
          IF ok
          THEN /\ dg' = upsert_http01_records(dg, token_map(arg.challenges))
               /\ res' = [res EXCEPT !.st = "store"]
          ELSE /\ dg' = dg
               /\ res' = [st |-> "raised", err |-> "lb_api_error"]
    /\ UNCHANGED << fn, arg, storeVars >> /\ OpsFrame

\* self.inv.store_challenges(cert_id, [...]) on the inventory as it is.
store_challenges(c, tm) == Inventory_store_challenges(inv, c, tm)

PublishStore ==
    /\ fn = "publish_http01_challenges" /\ res.st = "store"
    /\ \E ok \in BOOLEAN :
          IF ok
          THEN /\ inv' = store_challenges(arg.cert, token_map(arg.challenges))
               /\ res' = [res EXCEPT !.st = "returned"]
          ELSE /\ inv' = inv
               /\ res' = [st |-> "raised", err |-> "inventory"]
    /\ UNCHANGED << fn, arg, vault, disk, certKey, dg >>
    /\ UNCHANGED << coordVars, pump, webroot, histVars, dgVars >>

\* The client-ssl profiles a Virtual Server may have before a guided commit,
\* and the one the commit deploys.
OldProfiles == {"/Common/clientssl_old", "/Common/clientssl_other"}
NewProfile == "/Common/clientssl_new"

\* guided_commit with a virtual_server, up to the issuance: the GET of the
\* Virtual Server and, with replace_existing_clientssl, the tmsh delete of
\* its client-ssl profiles. res.vs is the profiles the Virtual Server has.
GuidedCommitCall ==
    /\ OpIdle
    /\ \E existing \in SUBSET OldProfiles, replace \in BOOLEAN, found \in BOOLEAN,
          deleted \in BOOLEAN, mode \in {"issue", "renew"} :
          /\ fn' = "guided_commit"
          /\ arg' = [existing |-> existing, replace_existing_clientssl |-> replace,
                     mode |-> mode]
          /\ res' = IF ~found
                    THEN [st |-> "raised", err |-> "vs_not_found", vs |-> existing]
                    ELSE IF replace /\ existing # {} /\ ~deleted
                    THEN [st |-> "raised", err |-> "lb_api_error", vs |-> existing]
                    ELSE [st |-> "issue", err |-> "",
                          vs |-> IF replace THEN {} ELSE existing]
    /\ UNCHANGED << storeVars, dg >> /\ OpsFrame

\* orc.request_certificate or orc.renew_certificate: it returns, or raises;
\* the EAB and rate-limit errors are answered with 400 and 429.
GuidedIssueOrRenew ==
    /\ fn = "guided_commit" /\ res.st = "issue"
    /\ \E k \in {"ok", "eab_required", "rate_limited", "acme_failed"} :
          res' = IF k = "ok" THEN [res EXCEPT !.st = "deploy"]
                 ELSE IF k = "acme_failed" THEN [res EXCEPT !.st = "raised", !.err = k]
                 ELSE [res EXCEPT !.st = "answered", !.err = k]
    /\ UNCHANGED << fn, arg, storeVars, dg >> /\ OpsFrame

\* orc.deploy_to_bigip(..., create_profile=True, virtual_server=...): the
\* new profile is attached to the Virtual Server by its last step.
GuidedDeploy ==
    /\ fn = "guided_commit" /\ res.st = "deploy"
    /\ \E ok \in BOOLEAN :
          res' = IF ok THEN [res EXCEPT !.st = "returned", !.vs = @ \cup {NewProfile}]
                 ELSE [res EXCEPT !.st = "raised", !.err = "lb_api_error"]
    /\ UNCHANGED << fn, arg, storeVars, dg >> /\ OpsFrame

NextOps ==
    \/ DeployCall \/ DeployPlainStep \/ DeployEnsureGet \/ DeployAttachPatch
    \/ DeployMark
    \/ FinalizeOrder
    \/ GetBundle
    \/ PublishCall \/ PublishUpsert \/ PublishStore
    \/ GuidedCommitCall \/ GuidedIssueOrRenew \/ GuidedDeploy

SpecOps == InitOps /\ [][NextOps]_vars

\* ------------------------------------------------------------------ claims
\* C1 as stated: once challenge files were observed, _finish is called only
\* after Preflight has succeeded for every observed token, and a Preflight
\* failure fails the call without _finish being called.
C1_FinishOnlyAfterPreflight ==
    /\ (w.had /\ finishCalled) => observed \subseteq preflighted
    /\ err = "preflight_timeout" => (~finishCalled /\ pc = "failed")

\* C1 for calls that name a bigip_host: once challenge files were observed,
\* _finish is called only after Preflight has succeeded for every observed
\* token, and a Preflight failure fails the call without _finish being called.
C1_FinishOnlyAfterPreflightWithHost ==
    /\ (call.host /\ w.had /\ finishCalled) => observed \subseteq preflighted
    /\ err = "preflight_timeout" => (~finishCalled /\ pc = "failed")

\* A call with a bigip_host observed two files and has gone on to _finish.
C1_Witness ==
    /\ call.host /\ w.had /\ finishCalled
    /\ Cardinality(observed) > 1

\* C2: when the coordinator of a call with a bigip_host goes on to _finish,
\* every token the ACME process has written during the call is on the LB
\* datagroup and has passed Preflight.
C2_WrittenTokensPreflighted ==
    [][(call.host /\ ~finishCalled /\ finishCalled')
         => \A t \in written' : t \in preflighted' /\ Served(dg', t)]_vars

\* C3: when the Pump thread has ended, every challenge file one of its polls
\* listed within the deadline is on the LB datagroup with its trimmed content.
C3_ListedFilesPublished ==
    pump.st \in {"crashed", "expired"}
        => \A t \in pump.listed : Served(dg, t) /\ ServedBody(dg, t) = FileContent(t)

\* The rows of the datagroup d, by name.
Rows(d) == ExistingMap(d.records)

\* C4: a single upsert_http01_records(M) that ran alone leaves every earlier
\* row whose name is not a key of M as it was, maps every key t of M to M[t],
\* and drops no row.
C4_UpsertFrame ==
    (Len(wr) = 1 /\ wr[1].st = "done")
        => /\ dg.exists
           /\ DOMAIN Rows(dg) = (DOMAIN Rows(dg0)) \cup (DOMAIN wr[1].M)
           /\ \A n \in (DOMAIN Rows(dg0)) \ (DOMAIN wr[1].M) : Rows(dg)[n] = Rows(dg0)[n]
           /\ \A t \in DOMAIN wr[1].M : Rows(dg)[t] = wr[1].M[t]

\* A single upsert has written new rows beside an earlier row it does not name.
C4_Witness ==
    /\ Len(wr) = 1 /\ wr[1].st = "done"
    /\ dg # dg0
    /\ (DOMAIN Rows(dg0)) \ (DOMAIN wr[1].M) # {}
    /\ DOMAIN wr[1].M # {}

\* C5: when two writers with disjoint token sets have both finished their
\* upserts, the datagroup holds every row of both and every earlier row.
C5_ConcurrentUpsertsKeepAllRows ==
    (Len(wr) = 2 /\ wr[1].st = "done" /\ wr[2].st = "done")
        => /\ \A i \in 1..2 : \A t \in DOMAIN wr[i].M :
                 t \in DOMAIN Rows(dg) /\ Rows(dg)[t] = wr[i].M[t]
           /\ \A n \in DOMAIN Rows(dg0) : n \in DOMAIN Rows(dg)

\* C6: when the secret store write of request_certificate fails, the call
\* fails and the inventory holds no record for its cert_id.
C6_NoRecordWhenSecretWriteFails ==
    err = "secret_store" => (pc = "failed" /\ inv[call.cert].status = "none")

\* The secret store write of a request has failed after a good install.
C6_Witness ==
    /\ err = "secret_store" /\ call.kind = "request"
    /\ disk[call.cert].fullchain

\* C7: every inventory record with status 'issued' has fullchain.pem in its
\* working directory, a key at its key_secret_path, and both dates set with
\* not_after later than not_before.
C7_IssuedRecordComplete ==
    \A c \in Certs :
        inv[c].status = "issued"
            => /\ disk[c].fullchain
               /\ vault[inv[c].ksp] # NoKey
               /\ inv[c].nb # 0 /\ inv[c].na # 0
               /\ inv[c].na > inv[c].nb

\* An issued record whose dates a renewal has replaced.
C7_Witness ==
    \E c \in Certs :
        /\ inv[c].status = "issued"
        /\ inv[c].nb > c

\* C8: once privkey.pem has been removed in a call, the secret store holds at
\* the certificate's key_secret_path the key the install step produced.
C8_KeyStoredBeforeRemoved ==
    keyRemoved => vault[call.ksp] = installedKey

\* C9: between calls, every record that is not revoked has at its
\* key_secret_path the key its certificate's latest install step produced.
C9_StoreHoldsLatestKey ==
    pc = "idle"
        => \A c \in Certs :
              inv[c].status \notin {"none", "revoked"} => vault[inv[c].ksp] = certKey[c]

\* C10: a request_certificate call launches at most two issue processes, and
\* a rerun that ends with no challenge file and no success fails the call.
C10_AtMostOneForceRerun ==
    /\ launches <= 2
    /\ (call.kind = "request" /\ call.attempt = 2 /\ pc # "wait"
          /\ ~w.had /\ ~(w.rc = 0 /\ acme_likely_succeeded(w.out)))
         => pc = "failed"

\* The rerun ended with a second reused-skip outcome and the call has failed.
C10_Witness ==
    /\ call.kind = "request" /\ call.attempt = 2 /\ launches = 2
    /\ ~w.had /\ IsReusedSkip(w.out)
    /\ pc = "failed"

\* An argv with every --force removed.
WithoutForce(argv) == SelectSeq(argv, LAMBDA x : x # "--force")

RunUnsuccessful ==
    /\ w.rc # RcNone
    /\ ~(w.rc = 0 /\ (w.had \/ acme_likely_succeeded(w.out)))

\* C12: when an ACME run of request_certificate ends unsuccessfully with a
\* rate-limit marker in its output, the call fails with the rate-limited
\* error, which carries the request's directory_url and the timestamp of a
\* "retry after <date> <time> UTC" phrase as <date>T<time>Z (none when the
\* output has no such timestamp); the inventory has no row for the cert_id.
C12_RateLimitedRequest ==
    /\ (call.kind = "request" /\ RunUnsuccessful /\ IsRateLimited(w.out))
         => (pc = "failed" /\ err = "rate_limited")
    /\ (call.kind = "request" /\ err = "rate_limited")
         => /\ pc = "failed"
            /\ inv[call.cert].status = "none"
            /\ raised.directory_url = LetsEncryptUrl
            /\ raised.next_retry_iso =
                  IF w.out.retry = GoodRetry
                  THEN [date |-> << 2025, 1, 2 >>, time |-> << 3, 4, 5 >>, zone |-> "Z"]
                  ELSE NoIso

C12_Witness ==
    /\ call.kind = "request" /\ err = "rate_limited" /\ pc = "failed"
    /\ w.out.retry = GoodRetry
    /\ raised.next_retry_iso # NoIso

\* ------------------------------------------------------- the REST routes
\* str(e) of the error of a failed call.
ExcMessage(kind) ==
    IF kind = "rate_limited" THEN "ACME_RATE_LIMIT"
    ELSE IF kind = "eab_required" THEN "ACME_EAB_REQUIRED"
    ELSE kind

NoResponse == [status |-> 200, reason |-> "", detail |-> "", retry_after |-> NoIso,
               directory_url |-> NoUrl, fields_needed |-> << >>]

\* POST /acme/request_certificate and POST /acme/renew_certificate: every
\* exception of the coordinator becomes HTTPException(400, str(e)).
ServerRoute(kind, exc) ==
    [NoResponse EXCEPT !.status = 400, !.detail = ExcMessage(kind)]

\* The guided commit: the two ACME errors have a JSON answer of their own,
\* any other exception leaves the handler.
guided_commit(kind, exc) ==
    IF kind = "eab_required"
    THEN [NoResponse EXCEPT !.status = 400, !.reason = "acme_eab_required",
                            !.directory_url = exc.directory_url,
                            !.fields_needed = << "eab_secret" >>]
    ELSE IF kind = "rate_limited"
    THEN [NoResponse EXCEPT !.status = 429, !.reason = "acme_rate_limited",
                            !.retry_after = exc.next_retry_iso,
                            !.directory_url = exc.directory_url]
    ELSE [NoResponse EXCEPT !.status = 500, !.detail = ExcMessage(kind)]

\* The answers the REST caller of the failed call can have received: the
\* guided commit passes every argument on, /acme/request_certificate passes
\* the whole request, /acme/renew_certificate passes the cert_id alone.
Responses ==
    { guided_commit(err, raised) }
    \cup (IF call.kind = "request" \/ (call.kind = "renew" /\ ~call.host /\ ~call.migrate)
          THEN { ServerRoute(err, raised) } ELSE {})

\* C13: whenever the coordinator raises rate-limited for an issue or renew
\* request the REST caller receives HTTP 429 with reason acme_rate_limited,
\* retry_after and directory_url, and whenever it raises EAB-required the
\* caller receives HTTP 400 with reason acme_eab_required and fields_needed
\* [eab_secret], on every route that triggers issuance or renewal.
C13_RestErrorMapping ==
    (pc = "failed" /\ call.kind \in {"request", "renew"})
      => \A r \in Responses :
            /\ err = "rate_limited"
                 => /\ r.status = 429 /\ r.reason = "acme_rate_limited"
                    /\ r.retry_after = raised.next_retry_iso
                    /\ r.directory_url = raised.directory_url
            /\ err = "eab_required"
                 => /\ r.status = 400 /\ r.reason = "acme_eab_required"
                    /\ r.fields_needed = << "eab_secret" >>

\* C14 as stated: when the output of an ACME run of request_certificate
\* contains externalAccountRequired and the run is not classified as a
\* success, the call fails with EAB-required carrying the directory_url and
\* no further ACME process is launched, even with a reused-skip marker.
C14_EabRequiredStopsRequest ==
    (call.kind = "request" /\ RunUnsuccessful /\ IsEabRequired(w.out))
      => /\ pc = "failed" /\ err = "eab_required"
         /\ raised.directory_url = LetsEncryptUrl
         /\ proc # "running" /\ launches = call.attempt

\* C14 amended: the same for an output that has no rate-limit marker (the
\* rate-limit markers are looked for first).
C14_EabRequiredUnlessRateLimited ==
    (call.kind = "request" /\ RunUnsuccessful /\ IsEabRequired(w.out)
       /\ ~IsRateLimited(w.out))
      => /\ pc = "failed" /\ err = "eab_required"
         /\ raised.directory_url = LetsEncryptUrl
         /\ proc # "running" /\ launches = call.attempt

C14_Witness ==
    /\ call.kind = "request" /\ RunUnsuccessful
    /\ IsEabRequired(w.out) /\ IsReusedSkip(w.out) /\ ~IsRateLimited(w.out)
    /\ err = "eab_required" /\ launches = 1

\* The argv has the word x, and has x followed by y.
HasArg(argv, x) == \E i \in 1..Len(argv) : argv[i] = x
HasArgPair(argv, x, y) == \E i \in 1..(Len(argv) - 1) : argv[i] = x /\ argv[i + 1] = y

\* C15: the argv of the ACME run of renew_certificate has --issue and
\* --server <supplied url> and no --renew when the supplied directory_url
\* differs from the one stored in the inventory record; it has --renew and
\* no --issue when no directory_url is supplied or it equals the stored one.
C15_MigrateIssuesElseRenews ==
    (call.kind = "renew" /\ call.attempt = 1)
      => LET argv == call.argvs[1]
             stored == inv[call.cert].url
         IN IF call.supplied # NoUrl /\ call.supplied # stored
            THEN /\ HasArg(argv, "--issue")
                 /\ HasArgPair(argv, "--server", call.supplied)
                 /\ ~HasArg(argv, "--renew")
            ELSE /\ HasArg(argv, "--renew")
                 /\ ~HasArg(argv, "--issue")

C15_Witness ==
    /\ call.kind = "renew" /\ call.attempt = 1
    /\ call.supplied = GoogleUrl /\ inv[call.cert].url = LetsEncryptUrl
    /\ HasArgPair(call.argvs[1], "--server", GoogleUrl)
    /\ HasArg(call.argvs[1], "--issue")

\* C16: after a successful renewal that migrated to another directory the
\* inventory record's directory_url is the new directory_url.
C16_MigrationUpdatesDirectory ==
    (call.kind = "renew" /\ call.migrate /\ pc = "done")
      => inv[call.cert].url = call.url

\* C17: when the ACME run of renew_certificate fails with "is not an issued
\* domain" in its output and no rate-limit or EAB marker, the call fails as
\* not-managed, with or without challenge files.
C17_NotManagedClassified ==
    (/\ call.kind = "renew" /\ pc = "failed"
     /\ w.rc \notin {0, RcNone} /\ w.out.nm
     /\ ~IsRateLimited(w.out) /\ ~IsEabRequired(w.out))
      => err = "not_managed"

\* C18: Vault.read of a path without an entry returns the empty mapping and
\* raises nothing; for an entry it returns the inner data.data object.
C18_ReadMissingIsEmpty ==
    fn = "Vault.read"
      => LET leaf == normalize_kv2(arg.path)
         IN /\ ~res.raised
            /\ res.value = IF leaf \in DOMAIN arg.store THEN arg.store[leaf] ELSE {}

\* C19 as stated: for every leaf and every accepted prefix, normalizing the
\* prefixed leaf twice gives what normalizing it once gives, and that is
\* the leaf.
C19_NormalizeIdempotent ==
    fn = "_normalize_kv2"
      => /\ res.twice = res.once
         /\ res.once = arg.leaf

\* C19 amended: the same for every leaf that is a normalized path itself
\* (no surrounding blanks, no leading slash, no leading v1/ or secret/data/).
C19_NormalizeIdempotentOnPlainLeaves ==
    (fn = "_normalize_kv2" /\ normalize_kv2(arg.leaf) = arg.leaf)
      => /\ res.twice = res.once
         /\ res.once = arg.leaf

C19_Witness ==
    /\ fn = "_normalize_kv2"
    /\ arg.leaf = << "tls", "/" >>
    /\ arg.path = << "/", "v1", "/", "secret", "/", "data", "/", "tls", "/" >>
    /\ res.once = arg.leaf

\* The POSTs p[1..n] carry consecutive ranges that start at 0.
Consecutive(p) ==
    /\ p # << >> => p[1].first = 0
    /\ \A i \in 1..(Len(p) - 1) : p[i + 1].first = p[i].last + 1

RECURSIVE SumLengths(_)
SumLengths(p) == IF p = << >> THEN 0 ELSE Head(p).content_length + SumLengths(Tail(p))

\* C20: for non-empty content and chunk size c >= 1, the Content-Range
\* intervals of the POSTs of _upload_octets are consecutive from 0 and, when
\* the upload returns, end at total-1; every chunk has between 1 and c
\* octets, as its Content-Length says; the lengths sum to total; and there
\* is more than one POST when total > c.
C20_ChunksPartitionContent ==
    (fn = "_upload_octets" /\ Len(arg.content) > 0)
      => LET p == res.posts
             total == Len(arg.content)
         IN /\ Consecutive(p)
            /\ \A i \in 1..Len(p) :
                  /\ p[i].total = total
                  /\ p[i].last < total
                  /\ p[i].content_length = p[i].last - p[i].first + 1
                  /\ p[i].content_length \in 1..arg.chunk_size
            /\ res.st = "returned"
                 => /\ p # << >> /\ p[Len(p)].last = total - 1
                    /\ SumLengths(p) = total
                    /\ total > arg.chunk_size => Len(p) > 1

C20_Witness ==
    /\ fn = "_upload_octets" /\ res.st = "returned"
    /\ Len(arg.content) > arg.chunk_size /\ arg.chunk_size > 1
    /\ Len(res.posts) > 1
    /\ res.posts[Len(res.posts)].content_length < arg.chunk_size

\* The positions of the PATCH of attach_to_clientssl and of its tmsh
\* command among the requests sent.
AttachPatches(reqs) == { i \in 1..Len(reqs) : reqs[i].method = "PATCH" }
AttachBashes(reqs) ==
    { i \in 1..Len(reqs) : reqs[i].path = "util/bash" /\ reqs[i] # VsBashReq }

\* C21: in attach_to_clientssl a PATCH that fails with an HTTP error is
\* followed by exactly one POST of the tmsh cert-key-chain command to the
\* bash endpoint, with the key, cert and chain paths of the PATCH, and when
\* that POST succeeds the operation goes on without an exception; after a
\* PATCH that succeeds no such POST is made.
C21_PatchFallsBackToTmsh ==
    fn = "deploy_to_bigip"
      => /\ (res.patch = "http_error" /\ res.st # "attach_bash")
              => /\ Cardinality(AttachPatches(res.reqs)) = 1
                 /\ Cardinality(AttachBashes(res.reqs)) = 1
                 /\ \A i \in AttachPatches(res.reqs), j \in AttachBashes(res.reqs) :
                       /\ j = i + 1
                       /\ res.reqs[j].what = res.reqs[i].what
                       /\ res.reqs[j].method = "POST"
                 /\ (res.st = "raised" /\ res.err = "lb_api_error")
                      => \E k \in 1..Len(res.reqs) :
                            k = Len(res.reqs) /\ res.reqs[k].path = "util/bash"
         /\ (res.patch = "http_error" /\ res.st = "attach_bash")
              => AttachBashes(res.reqs) = {}
         /\ res.patch = "ok" => AttachBashes(res.reqs) = {}

C21_Witness ==
    /\ fn = "deploy_to_bigip" /\ res.patch = "http_error" /\ res.st = "returned"
    /\ Cardinality(AttachBashes(res.reqs)) = 1

\* The place of a request in the order of deploy_to_bigip: upload, install,
\* ensure profile, attach, VS attach.
StepRank(r) ==
    IF r.path = "uploads" THEN 1
    ELSE IF r.path \in {"ssl-key", "ssl-cert"} THEN 2
    ELSE IF r.path = "client-ssl" /\ r.method # "PATCH" THEN 3
    ELSE IF r # VsBashReq THEN 4
    ELSE 5
UploadsAndInstalls ==
    << UploadReq(KeyName), UploadReq(CertName), UploadReq(ChainName),
       InstallReq("ssl-key", KeyName), InstallReq("ssl-cert", CertName),
       InstallReq("ssl-cert", ChainName) >>

\* C29: deploy_to_bigip reads the key, then uploads the three files,
\* installs key, cert and chain, ensures the profile, attaches the
\* key-cert-chain, attaches the profile to the VS if asked, and marks the
\* record deployed; the status is 'deployed' only after every LB step has
\* succeeded, a missing private key fails the call before any LB request,
\* and a failing step leaves the inventory record as it was.
C29_DeployOrder ==
    fn = "deploy_to_bigip"
      => /\ \A i \in 1..Len(res.reqs) :
               /\ i <= 6 => res.reqs[i] = UploadsAndInstalls[i]
               /\ i > 1 => StepRank(res.reqs[i - 1]) <= StepRank(res.reqs[i])
         /\ res.reqs # << >> => arg.rec.status # "none" /\ vault[arg.rec.ksp] # NoKey
         /\ (arg.rec.status # "none" /\ vault[arg.rec.ksp] = NoKey)
              => res.st = "raised" /\ res.reqs = << >>
         /\ res.st # "returned" => inv[arg.cert] = arg.rec
         /\ res.st = "returned"
              => /\ [inv[arg.cert] EXCEPT !.deployed = arg.rec.deployed]
                      = [arg.rec EXCEPT !.status = "deployed"]
                 /\ Len(res.reqs) >= 7
                 /\ AttachPatches(res.reqs) # {}
                 /\ arg.create_profile => \E i \in 1..Len(res.reqs) : res.reqs[i] = EnsureGetReq
                 /\ arg.virtual_server => res.reqs[Len(res.reqs)] = VsBashReq

C29_Witness ==
    /\ fn = "deploy_to_bigip" /\ res.st = "returned"
    /\ arg.create_profile /\ arg.virtual_server
    /\ arg.rec.status = "issued" /\ inv[arg.cert].status = "deployed"

\* C23: with key export disabled get_bundle never returns private_key_pem
\* and never reads the secret store: asked for the key it fails with a
\* permission error, not asked it returns the bundle without the key.
C23_NoKeyWithoutExportPolicy ==
    (fn = "get_bundle" /\ ~arg.allow_key_export)
      => /\ "private_key_pem" \notin res.fields
         /\ res.private_key_pem = NoKey
         /\ res.vault_reads = 0
         /\ arg.before.inv[arg.cert].status # "none"
              => IF arg.include_key
                 THEN res.st = "raised" /\ res.err = "permission"
                 ELSE res.st = "returned" /\ res.fields = BundleFields

C23_Witness ==
    /\ fn = "get_bundle" /\ ~arg.allow_key_export /\ arg.include_key
    /\ arg.before.inv[arg.cert].status # "none"
    /\ arg.before.vault[arg.before.inv[arg.cert].ksp] # NoKey
    /\ res.err = "permission"

\* C30: finalize_order changes none of inventory, secret store, working
\* directory and datagroup; it sleeps min(wait_seconds, 120) seconds when
\* wait_seconds > 0 and not at all otherwise, and returns the status and
\* dates of the record; for an unknown cert_id it fails without sleeping.
C30_FinalizeOrderFrame ==
    fn = "finalize_order"
      => /\ Stores = arg.before
         /\ IF inv[arg.cert].status = "none"
            THEN res.st = "raised" /\ res.slept = 0
            ELSE /\ res.st = "returned"
                 /\ res.ret = << inv[arg.cert].status, inv[arg.cert].nb, inv[arg.cert].na >>
                 /\ arg.wait_seconds <= 0 => res.slept = 0
                 /\ (arg.wait_seconds > 0 /\ arg.wait_seconds <= 120)
                      => res.slept = arg.wait_seconds
                 /\ arg.wait_seconds > 120 => res.slept = 120

C30_Witness ==
    /\ fn = "finalize_order" /\ res.st = "returned"
    /\ arg.wait_seconds > 120 /\ res.slept = 120
    /\ res.ret[1] = "deployed"

\* C27: after publish_http01_challenges has returned, every token with its
\* keyAuthorization taken from the challenges is a row of the LB datagroup
\* and an entry of the http01_challenges of the inventory record of cert_id.
C27_PublishedPairsInBothStores ==
    (fn = "publish_http01_challenges" /\ res.st = "returned")
      => LET tm == token_map(arg.challenges)
         IN \A t \in DOMAIN tm :
               /\ Served(dg, t) /\ ServedBody(dg, t) = tm[t]
               /\ inv[arg.cert].status # "none"
               /\ t \in DOMAIN StoredChallenges(inv[arg.cert])
               /\ StoredChallenges(inv[arg.cert])[t] = tm[t]

\* C22: an answer 409 of the LB to the POST that creates the datagroup does
\* not fail the upsert: no writer ends in a failure.
C22_ConflictDoesNotFailUpsert ==
    \A i \in 1..Len(wr) : wr[i].st # "failed"

\* The records array is sorted by name and holds each name once.
SortedByName(records) ==
    \A i, j \in 1..Len(records) : i < j => records[i].name < records[j].name

\* C28: a call of upsert_http01_records sends its PATCH exactly when some
\* token of its map is absent from the rows it read or has other data there;
\* a writer alone that repeats its upsert sends no PATCH in the repetition
\* and the datagroup stays what its first call left; the datagroup's
\* records array is sorted by name with each name once.
C28_UpsertIdempotent ==
    /\ \A i \in 1..Len(wr) :
          LET differs == \E t \in DOMAIN wr[i].M :
                            t \notin DOMAIN wr[i].existing \/ wr[i].existing[t] # wr[i].M[t]
          IN /\ (wr[i].st = "write" \/ wr[i].wrote) => differs
             /\ (wr[i].st = "done" /\ ~wr[i].wrote) => ~differs
    /\ (Len(wr) = 1 /\ wr[1].round > 1)
          => /\ wr[1].st \notin {"post", "write", "failed"} /\ ~wr[1].wrote
             /\ dg = upsert_http01_records(dg0, wr[1].M)
    /\ SortedByName(dg.records)

\* A writer alone has written rows and then finished the same upsert again.
C28_Witness ==
    /\ Len(wr) = 1 /\ wr[1].round > 1 /\ wr[1].st = "done"
    /\ dg # dg0 /\ DOMAIN Rows(dg0) # {}

\* C26: a call rejected with a validation error has started no ACME client
\* process and no Challenge Pump.
C26_RejectedBeforeAnythingStarts ==
    (pc = "failed" /\ err = "validation")
        => pump.st = "off" /\ proc = NoProc /\ launches = 0

DeadlineMessage(kind) ==
    IF kind = "preflight_timeout" THEN {"url", "timeout_sec"}
    ELSE {"exit_code", "stdout", "stderr"}

\* _wait_for_challenge_files_or_proc calls proc.communicate() only when
\* proc.poll() is not None: at its deadline it returns (False, None, "", "").
OutputCollected(wait) == wait.rc # RcNone

\* C25: a call that fails at the Preflight deadline, or at the deadline of
\* the wait for challenge files with no file and no process exit, raises an
\* error whose message has the stdout and stderr captured from the ACME
\* client process.
C25_DeadlineErrorCarriesOutput ==
    /\ (pc = "failed" /\ err = "preflight_timeout")
          => {"stdout", "stderr"} \subseteq DeadlineMessage(err)
    /\ (pc = "failed" /\ err = "no_challenge_files" /\ ~w.had /\ w.rc = RcNone)
          => /\ {"stdout", "stderr"} \subseteq DeadlineMessage(err)
             /\ OutputCollected(w)

\* C31 as stated: the challenges stored earlier for the certificate are
\* still stored after store_challenges has stored new ones.
C31_ChallengesMergedWithEarlier ==
    (fn = "publish_http01_challenges" /\ res.st = "returned")
      => \A t \in DOMAIN StoredChallenges(arg.before.inv[arg.cert]) :
            t \in DOMAIN StoredChallenges(inv[arg.cert])

\* C31: store_challenges changes only the key http01_challenges of the
\* deployed sub-document, whose value becomes the challenges handed in, and
\* leaves the bigip pointer, the status and the other columns as they were;
\* mark_deployed changes only the key bigip and the status and leaves
\* http01_challenges as it was.
C31_DeployedSubDocumentFrame ==
    /\ (fn = "publish_http01_challenges" /\ res.st = "returned"
          /\ arg.before.inv[arg.cert].status # "none")
         => LET old == arg.before.inv[arg.cert]
                new == inv[arg.cert]
            IN /\ [new EXCEPT !.deployed = old.deployed] = old
               /\ DOMAIN new.deployed = (DOMAIN old.deployed) \cup {"http01_challenges"}
               /\ \A k \in (DOMAIN old.deployed) \ {"http01_challenges"} :
                     new.deployed[k] = old.deployed[k]
               /\ new.deployed["http01_challenges"] = token_map(arg.challenges)
    /\ (fn = "deploy_to_bigip" /\ res.st = "returned")
         => LET old == arg.rec
                new == inv[arg.cert]
            IN /\ new.status = "deployed"
               /\ [new EXCEPT !.deployed = old.deployed, !.status = old.status] = old
               /\ DOMAIN new.deployed = (DOMAIN old.deployed) \cup {"bigip"}
               /\ \A k \in (DOMAIN old.deployed) \ {"bigip"} :
                     new.deployed[k] = old.deployed[k]
               /\ new.deployed["bigip"].host = DeployHost

\* Challenges have been stored for a deployed certificate that had others,
\* and a certificate holding challenges has been deployed again.
C31_Witness ==
    \/ /\ fn = "publish_http01_challenges" /\ res.st = "returned"
       /\ arg.before.inv[arg.cert].status = "deployed"
       /\ StoredChallenges(arg.before.inv[arg.cert]) # NoChecks
       /\ StoredChallenges(inv[arg.cert]) # StoredChallenges(arg.before.inv[arg.cert])
    \/ /\ fn = "deploy_to_bigip" /\ res.st = "returned"
       /\ StoredChallenges(arg.rec) # NoChecks
       /\ arg.rec.status = "deployed"

\* C36: whenever request_certificate has raised, the inventory holds no row
\* with the cert_id of the call.
C36_NoRowAfterFailedRequest ==
    (pc = "failed" /\ call.kind = "request") => inv[call.cert].status = "none"

\* C33: when request_certificate or renew_certificate has returned or
\* raised, no ACME client process started by the call is still running.
C33_NoProcessLeftRunning ==
    (pc \in {"done", "failed"} /\ call.kind \in {"request", "renew"}) => proc # "running"

\* C34: in a request_certificate call with an LB host the Pump of the call
\* is running whenever the coordinator waits for the challenge files of the
\* force-issue rerun, collects them or runs Preflight on them.
C34_PumpRunsDuringRerun ==
    (call.kind = "request" /\ call.host /\ call.attempt > 1
       /\ pc \in {"wait", "collect", "preflight"})
        => pump.st = "running"

\* C35: no wait of a request_certificate or renew_certificate call is
\* without a deadline: wherever the coordinator waits, one of its own steps
\* can be taken whatever the ACME client process does.
C35_EveryWaitHasDeadline ==
    /\ pc = "wait" => ENABLED (WaitFiles \/ WaitExit \/ WaitTimeout)
    /\ pc = "preflight" => ENABLED (PreflightOk \/ PreflightTimeout)
    /\ pc = "finish" => ENABLED Finish

\* C32: for every outcome of the ACME run whose output has neither a
\* reused-skip nor a not-managed marker, renew_certificate and
\* request_certificate reach the same classification.
C32_RenewClassifiesAsIssue ==
    (fn = "classify" /\ ~arg.out.skip /\ ~arg.out.nm) => res.renew = res.request

\* C37: the status of a revoked record stays 'revoked' whatever
\* deploy_to_bigip, publish_http01_challenges and finalize_order do, and
\* finalize_order does not report it as issued or deployed.
C37_RevokedIsTerminal ==
    /\ (fn = "deploy_to_bigip" /\ arg.rec.status = "revoked")
          => inv[arg.cert].status = "revoked"
    /\ (fn \in {"publish_http01_challenges", "finalize_order"}
          /\ arg.before.inv[arg.cert].status = "revoked")
          => /\ inv[arg.cert].status = "revoked"
             /\ (fn = "finalize_order" /\ res.st = "returned") => res.ret[1] = "revoked"

\* C38: a guided commit that has removed client-ssl profiles from the
\* Virtual Server has attached the new profile, and a commit that failed
\* has left the Virtual Server the profiles it had.
C38_ProfilesRemovedOnlyWithNewAttached ==
    (fn = "guided_commit" /\ res.st \in {"answered", "raised", "returned"})
      => /\ ~(arg.existing \subseteq res.vs) => NewProfile \in res.vs
         /\ res.st # "returned" => res.vs = arg.existing

\* C39: two writers that find the datagroup missing both get through its
\* creation: the one whose POST comes second does not fail.
C39_CreationRaceHasNoLoser ==
    (Len(wr) = 2 /\ ~dg0.exists)
        => \A i \in 1..2 : wr[i].st \in {"ensure", "post", "read", "write", "done"}

\* C40: for every accepted spelling of the partition and every unqualified
\* profile name, the PATCH path and the tmsh fallback of attach_to_clientssl
\* address the profile ensure_clientssl_profile ensured, and the key, cert
\* and chain referenced are the installed objects.
C40_AttachAddressesEnsuredProfile ==
    fn = "attach_to_clientssl"
      => /\ res.patch_path = res.ensured_path
         /\ res.tmsh_profile = res.ensured
         /\ res.referenced = res.installed
====
